---- MODULE Spec2Model ----
(***************************************************************************)
(* A model of import-path-converter: the alias resolver with its           *)
(* module-level memoization cache, the import locator, the rewrite engine  *)
(* and the ignore matcher.                                                 *)
(*                                                                         *)
(* A JavaScript string is modelled as a sequence of one-character strings, *)
(* so that prefix tests, slices, concatenations and pattern matches are    *)
(* computed character by character as the code computes them.              *)
(***************************************************************************)
EXTENDS Integers, Sequences, FiniteSets, TLC

VARIABLES
  op,            \* name of the operation that ran last ("init" before any)
  args,          \* the arguments of that operation
  ret,           \* what it returned
  resolveCache,  \* the module-level LRU cache of path-resolver, most recent first
  answered,      \* the branch the last resolveImport took: bypass, hit or miss
  remembered,    \* an earlier resolveImport call and its result (history)
  rw,            \* the replaceImports loop: working text and position
  scan,          \* lastIndex of each pattern of IMPORT_PATTERNS, now and when
                 \* the last locator call began
  lru,           \* an LRUCache object: its Map, its nodes, head and tail
  lruRef,        \* the entries of a least-recently-used map given the same
                 \* calls as lru, and what it answered last (history)
  disk,          \* the file system: the files by path, and the writeFile
                 \* calls of the last processFile or processBatch
  batch,         \* a processBatch call in progress: its files, loops and results
  mac,           \* a MemoryAwareCache object, with the clock Date.now() reads
  pool           \* a WorkerPool object with its workers, and the promises
                 \* execute has returned

vars ==
  <<op, args, ret, resolveCache, answered, remembered, rw, scan, lru, lruRef,
    disk, batch, mac, pool>>

\* JavaScript null / undefined: distinct from every string, whose elements
\* are single characters.
NULL == <<"null">>

NoArgs == <<>>

\* the backquote character, which a TLA+ string cannot hold
BackQuote == "BQ"

-----------------------------------------------------------------------------
(* String primitives of String.prototype, 0-based as in JavaScript.       *)

StartsWith(s, p) == Len(p) <= Len(s) /\ SubSeq(s, 1, Len(p)) = p

EndsWith(s, p) == Len(p) <= Len(s) /\ SubSeq(s, Len(s) - Len(p) + 1, Len(s)) = p

\* s.slice(from, to) for 0 <= from, to
Slice(s, from, to) == SubSeq(s, from + 1, IF to > Len(s) THEN Len(s) ELSE to)

\* s.slice(from)
SliceFrom(s, from) == SubSeq(s, from + 1, Len(s))

\* s.indexOf(sub): the first 0-based position of sub in s, or -1
IndexOf(s, sub) ==
  LET hits == {i \in 0..(Len(s) - Len(sub)) : SubSeq(s, i + 1, i + Len(sub)) = sub}
  IN IF hits = {} THEN -1 ELSE CHOOSE i \in hits : \A j \in hits : i <= j

Includes(s, sub) == IndexOf(s, sub) # -1

\* What a replacement string stands for in s.replace(sub, replacement): a
\* dollar sign before another one, before &, before a backquote or before a
\* single quote is a pattern for a dollar sign, the matched text, the text
\* before it or the text after it; every other character stands for itself.
RECURSIVE GetSubstitution(_, _, _, _)
GetSubstitution(matched, before, after, replacement) ==
  IF replacement = << >> THEN << >>
  ELSE IF replacement[1] = "$" /\ Len(replacement) > 1
          /\ replacement[2] \in {"$", "&", BackQuote, "'"}
  THEN (CASE replacement[2] = "$" -> <<"$">>
          [] replacement[2] = "&" -> matched
          [] replacement[2] = BackQuote -> before
          [] replacement[2] = "'" -> after)
       \o GetSubstitution(matched, before, after,
                          SubSeq(replacement, 3, Len(replacement)))
  ELSE <<replacement[1]>>
       \o GetSubstitution(matched, before, after, Tail(replacement))

\* s.replace(sub, replacement) with a string pattern: the first occurrence
ReplaceFirst(s, sub, replacement) ==
  LET i == IndexOf(s, sub)
      before == SubSeq(s, 1, i)
      after == SubSeq(s, i + Len(sub) + 1, Len(s))
  IN IF i = -1 THEN s
     ELSE before \o GetSubstitution(sub, before, after, replacement) \o after

WhiteSpace == {" ", "\n", "\t", "\r"}

\* a test that takes no string for blank
NeverBlank(s) == FALSE

\* !s.trim()
IsBlank(s) == \A i \in 1..Len(s) : s[i] \in WhiteSpace

RECURSIVE TrimLeft(_)
TrimLeft(s) ==
  IF Len(s) > 0 /\ s[1] \in WhiteSpace THEN TrimLeft(Tail(s)) ELSE s

RECURSIVE TrimRight(_)
TrimRight(s) ==
  IF Len(s) > 0 /\ s[Len(s)] \in WhiteSpace
  THEN TrimRight(SubSeq(s, 1, Len(s) - 1)) ELSE s

\* s.trim()
Trim(s) == TrimRight(TrimLeft(s))

-----------------------------------------------------------------------------
(* Node's posix path module, as path-resolver uses it.                     *)

\* process.cwd(): where a relative fromFile is resolved from
Cwd == <<"/","w">>

RECURSIVE SplitSlash(_)
SplitSlash(s) ==
  LET i == IndexOf(s, <<"/">>)
  IN IF i = -1 THEN <<s>>
     ELSE <<SubSeq(s, 1, i)>> \o SplitSlash(SliceFrom(s, i + 1))

RECURSIVE JoinSlash(_)
JoinSlash(segs) ==
  IF Len(segs) = 0 THEN <<>>
  ELSE IF Len(segs) = 1 THEN segs[1]
  ELSE segs[1] \o <<"/">> \o JoinSlash(Tail(segs))

\* normalizeString: drops empty and "." segments and resolves ".." segments
RECURSIVE NormalizeSegs(_, _, _)
NormalizeSegs(segs, acc, allowAboveRoot) ==
  IF Len(segs) = 0 THEN acc
  ELSE LET seg == Head(segs)
           rest == Tail(segs)
       IN IF seg = <<>> \/ seg = <<".">>
          THEN NormalizeSegs(rest, acc, allowAboveRoot)
          ELSE IF seg = <<".",".">>
          THEN IF Len(acc) > 0 /\ acc[Len(acc)] # <<".",".">>
               THEN NormalizeSegs(rest, SubSeq(acc, 1, Len(acc) - 1), allowAboveRoot)
               ELSE IF allowAboveRoot
               THEN NormalizeSegs(rest, Append(acc, seg), allowAboveRoot)
               ELSE NormalizeSegs(rest, acc, allowAboveRoot)
          ELSE NormalizeSegs(rest, Append(acc, seg), allowAboveRoot)

NormalizeString(p, allowAboveRoot) ==
  JoinSlash(NormalizeSegs(SplitSlash(p), <<>>, allowAboveRoot))

\* path.normalize(p)
Normalize(p) ==
  IF Len(p) = 0 THEN <<".">>
  ELSE LET isAbsolute == p[1] = "/"
           trailingSeparator == p[Len(p)] = "/"
           n == NormalizeString(p, ~isAbsolute)
       IN IF Len(n) = 0
          THEN (IF isAbsolute THEN <<"/">> ELSE IF trailingSeparator THEN <<".","/">> ELSE <<".">>)
          ELSE LET t == IF trailingSeparator THEN n \o <<"/">> ELSE n
               IN IF isAbsolute THEN <<"/">> \o t ELSE t

\* path.resolve(from, to): to against from, from against the working directory
Resolve(from, to) ==
  LET r1 == IF Len(to) = 0 THEN <<>> ELSE to \o <<"/">>
      abs1 == Len(to) > 0 /\ to[1] = "/"
      r2 == IF abs1 \/ Len(from) = 0 THEN r1 ELSE from \o <<"/">> \o r1
      abs2 == abs1 \/ (Len(from) > 0 /\ from[1] = "/")
      r3 == IF abs2 THEN r2 ELSE Cwd \o <<"/">> \o r2
  IN <<"/">> \o NormalizeString(r3, FALSE)

\* path.dirname: the 0-based end of the directory part, or -1
RECURSIVE DirnameEnd(_, _, _)
DirnameEnd(p, i, matchedSlash) ==
  IF i < 1 THEN -1
  ELSE IF p[i + 1] = "/"
       THEN (IF ~matchedSlash THEN i ELSE DirnameEnd(p, i - 1, matchedSlash))
       ELSE DirnameEnd(p, i - 1, FALSE)

\* path.dirname(p)
Dirname(p) ==
  IF Len(p) = 0 THEN <<".">>
  ELSE LET hasRoot == p[1] = "/"
           end == DirnameEnd(p, Len(p) - 1, TRUE)
       IN IF end = -1 THEN (IF hasRoot THEN <<"/">> ELSE <<".">>)
          ELSE IF hasRoot /\ end = 1 THEN <<"/","/">>
          ELSE SubSeq(p, 1, end)

-----------------------------------------------------------------------------
(* path-resolver: PathMapping, PathResolverState, findBestMatch,           *)
(* convertToAlias.                                                         *)

PathMapping(alias, basePath, resolvedBase) ==
  [alias |-> alias, basePath |-> basePath, resolvedBase |-> resolvedBase]

\* s.replace(/\/\*$/, ''): a trailing "/*" removed
StripWildcard(s) == IF EndsWith(s, <<"/","*">>) THEN SubSeq(s, 1, Len(s) - 2) ELSE s

\* the mappings of state.pathMappings in Map iteration order
RECURSIVE FlattenMappings(_)
FlattenMappings(entries) ==
  IF Len(entries) = 0 THEN <<>>
  ELSE Head(entries).mappings \o FlattenMappings(Tail(entries))

AllMappings(state) == FlattenMappings(state.pathMappings)

NormalizedBase(mapping) == Normalize(StripWildcard(mapping.resolvedBase))

\* the comparison with >= for >: the last of equally long bases would win
MoreSpecificOrEqual(len, bestMatchLength) == len >= bestMatchLength

\* the comparison that lets a later mapping replace the best one so far
MoreSpecific(len, bestMatchLength) == len > bestMatchLength

\* the two nested for-loops of findBestMatch over the flattened mappings
RECURSIVE FindBestMatchLoop(_, _, _, _, _)
FindBestMatchLoop(ms, normalizedPath, i, bestMatch, bestMatchLength) ==
  IF i > Len(ms) THEN bestMatch
  ELSE LET resolvedBase == NormalizedBase(ms[i])
       IN IF StartsWith(normalizedPath, resolvedBase)
             /\ MoreSpecific(Len(resolvedBase), bestMatchLength)
          THEN FindBestMatchLoop(ms, normalizedPath, i + 1, ms[i], Len(resolvedBase))
          ELSE FindBestMatchLoop(ms, normalizedPath, i + 1, bestMatch, bestMatchLength)

\* findBestMatch's null: no mapping
NoMatch == [alias |-> NULL, basePath |-> NULL, resolvedBase |-> NULL]

FindBestMatch(state, absolutePath) ==
  FindBestMatchLoop(AllMappings(state), Normalize(absolutePath), 1, NoMatch, 0)

ConvertToAlias(absolutePath, mapping) ==
  LET normalizedPath == Normalize(absolutePath)
      resolvedBase == NormalizedBase(mapping)
  IN IF ~StartsWith(normalizedPath, resolvedBase) THEN NULL
     ELSE LET relativePart == SliceFrom(normalizedPath, Len(resolvedBase))
              cleanRelativePart == IF StartsWith(relativePart, <<"/">>)
                                   THEN SliceFrom(relativePart, 1) ELSE relativePart
              aliasBase == StripWildcard(mapping.alias)
          IN IF Len(cleanRelativePart) = 0 THEN aliasBase
             ELSE aliasBase \o <<"/">> \o cleanRelativePart

\* ConversionResult
Conversion(originalImport, convertedImport, reason) ==
  [originalImport |-> originalImport, convertedImport |-> convertedImport,
   reason |-> reason]

IsRelative(importPath) ==
  StartsWith(importPath, <<".","/">>) \/ StartsWith(importPath, <<".",".","/">>)

ReasonNotRelative == <<"N","o","t"," ","a"," ","r","e","l","a","t","i","v","e"," ","i","m","p","o","r","t">>
ReasonNoAlias == <<"N","o"," ","m","a","t","c","h","i","n","g"," ","p","a","t","h"," ","a","l","i","a","s"," ","f","o","u","n","d">>
ReasonFailed == <<"F","a","i","l","e","d"," ","t","o"," ","c","o","n","v","e","r","t"," ","t","o"," ","a","l","i","a","s"," ","f","o","r","m","a","t">>
ReasonConverted(alias) == <<"C","o","n","v","e","r","t","e","d"," ","u","s","i","n","g"," ","a","l","i","a","s"," ","'">> \o alias \o <<"'">>
ReasonError == <<"E","r","r","o","r"," ","d","u","r","i","n","g"," ","c","o","n","v","e","r","s","i","o","n",":"," ","f","r","o","m","F","i","l","e"," ","p","a","r","a","m","e","t","e","r"," ","c","a","n","n","o","t"," ","b","e"," ","e","m","p","t","y">>

\* The try block of resolveImport, run on a cache miss: the result, and
\* whether that path of the code stores it in resolveCache before returning.
ResolveUncached(state, importPath, fromFile) ==
  IF Len(fromFile) = 0 \/ IsBlank(fromFile)
  THEN [result |-> Conversion(importPath, NULL, ReasonError), stored |-> TRUE]
  ELSE LET fromDir == Dirname(fromFile)
           absolutePath == Resolve(fromDir, importPath)
           bestMatch == FindBestMatch(state, absolutePath)
       IN IF bestMatch = NoMatch
          THEN [result |-> Conversion(importPath, NULL, ReasonNoAlias),
                stored |-> FALSE]
          ELSE LET convertedImport == ConvertToAlias(absolutePath, bestMatch)
               IN IF convertedImport = NULL \/ Len(convertedImport) = 0
                  THEN [result |-> Conversion(importPath, NULL, ReasonFailed),
                        stored |-> FALSE]
                  ELSE [result |-> Conversion(importPath, convertedImport,
                                              ReasonConverted(bestMatch.alias)),
                        stored |-> TRUE]

\* `${fromFile}:${importPath}`
CacheKey(fromFile, importPath) == fromFile \o <<":">> \o importPath

-----------------------------------------------------------------------------
(* LRUCache, as resolveCache uses it: the entries from the head (most      *)
(* recently used) to the tail (least recently used).                       *)

\* the capacity resolveCache is built with, scaled down so that evictions
\* happen within the calls the model makes
CacheCapacity == 2

CacheIndex(cache, key) ==
  LET hits == {i \in 1..Len(cache) : cache[i].key = key}
  IN IF hits = {} THEN 0 ELSE CHOOSE i \in hits : TRUE

CacheHas(cache, key) == CacheIndex(cache, key) # 0

RemoveAt(seq, i) == SubSeq(seq, 1, i - 1) \o SubSeq(seq, i + 1, Len(seq))

\* moveToFront(key)
MoveToFront(cache, key) ==
  LET i == CacheIndex(cache, key)
  IN IF i = 0 THEN cache ELSE <<cache[i]>> \o RemoveAt(cache, i)

\* evictLRU(): the tail entry goes
EvictLRU(cache) ==
  IF Len(cache) = 0 THEN cache ELSE SubSeq(cache, 1, Len(cache) - 1)

\* get(key)'s undefined
NoConversion == Conversion(NULL, NULL, NULL)

\* get(key): the value, or undefined
CacheGet(cache, key) ==
  LET i == CacheIndex(cache, key)
  IN IF i = 0 THEN NoConversion ELSE cache[i].value

\* set(key, value)
CacheSet(cache, key, value) ==
  LET i == CacheIndex(cache, key)
  IN IF i # 0
     THEN <<[key |-> key, value |-> value]>> \o RemoveAt(cache, i)
     ELSE LET room == IF Len(cache) >= CacheCapacity THEN EvictLRU(cache) ELSE cache
          IN <<[key |-> key, value |-> value]>> \o room

\* resolveImport(state, importPath, fromFile) on a resolveCache: the result,
\* the cache the call leaves and the branch it took
ResolveImportOn(cache, state, importPath, fromFile) ==
  LET cacheKey == CacheKey(fromFile, importPath)
      Miss(fresh) ==
        [result |-> fresh.result,
         cache |-> IF fresh.stored THEN CacheSet(cache, cacheKey, fresh.result)
                   ELSE cache,
         answered |-> "miss"]
  IN IF ~IsRelative(importPath)
     THEN [result |-> Conversion(importPath, NULL, ReasonNotRelative),
           cache |-> cache, answered |-> "bypass"]
     ELSE IF CacheHas(cache, cacheKey)
     THEN [result |-> CacheGet(cache, cacheKey),
           cache |-> MoveToFront(cache, cacheKey), answered |-> "hit"]
     ELSE Miss(ResolveUncached(state, importPath, fromFile))

-----------------------------------------------------------------------------
(* LRUCache as the class is written: a Map from key to node and a doubly   *)
(* linked list of the nodes from head to tail.  A node is named by the key *)
(* the Map holds it under, and a pointer that is not set is Undefined.     *)

Undefined == "undefined"

\* { value, prev, next }
Node(value, prev, next) == [value |-> value, prev |-> prev, next |-> next]

\* new LRUCache(capacity): keys is the insertion order of the Map
NewLRUCache(capacity) ==
  [capacity |-> capacity, keys |-> << >>, node |-> [k \in {} |-> Node(Undefined, Undefined, Undefined)],
   head |-> Undefined, tail |-> Undefined]

\* this.cache.has(key)
LRUHas(c, key) == key \in DOMAIN c.node

\* node.field = value for the node a pointer leads to; nothing for Undefined
SetPrev(node, pointer, value) ==
  IF pointer \in DOMAIN node THEN [node EXCEPT ![pointer].prev = value] ELSE node

SetNext(node, pointer, value) ==
  IF pointer \in DOMAIN node THEN [node EXCEPT ![pointer].next = value] ELSE node

\* a moveToFront that leaves the list as it is
LRUStayInPlace(c, key) == c

\* moveToFront(key)
LRUMoveToFront(c, key) ==
  IF ~LRUHas(c, key) \/ key = c.head THEN c
  ELSE LET n == c.node[key]
           unlinked == SetPrev(SetNext(c.node, n.prev, n.next), n.next, n.prev)
           tail == IF key = c.tail THEN n.prev ELSE c.tail
           relinked == [unlinked EXCEPT ![key] = Node(n.value, Undefined, c.head)]
       IN [c EXCEPT !.node = SetPrev(relinked, c.head, key),
                    !.head = key,
                    !.tail = tail]

\* an evictLRU that removes nothing
LRUEvictNothing(c) == c

\* evictLRU(): the key whose node is the tail is looked up in the Map and
\* deleted, and the tail steps back
LRUEvict(c) ==
  IF c.tail = Undefined THEN c
  ELSE LET found == {i \in 1..Len(c.keys) : c.keys[i] = c.tail}
           keyToEvict == c.keys[CHOOSE i \in found : \A j \in found : i <= j]
           prev == c.node[c.tail].prev
           left == [k \in DOMAIN c.node \ {keyToEvict} |-> c.node[k]]
       IN IF found = {} THEN c
          ELSE IF prev # Undefined
          THEN [c EXCEPT !.keys = SelectSeq(c.keys, LAMBDA k : k # keyToEvict),
                         !.node = SetNext(left, prev, Undefined),
                         !.tail = prev]
          ELSE [c EXCEPT !.keys = SelectSeq(c.keys, LAMBDA k : k # keyToEvict),
                         !.node = left,
                         !.head = Undefined,
                         !.tail = Undefined]

\* get(key): the value returned and the cache the call leaves
LRUGet(c, key) ==
  IF ~LRUHas(c, key) THEN [value |-> Undefined, cache |-> c]
  ELSE [value |-> c.node[key].value, cache |-> LRUMoveToFront(c, key)]

\* set(key, value)
LRUSet(c, key, value) ==
  IF LRUHas(c, key)
  THEN LRUMoveToFront([c EXCEPT !.node[key].value = value], key)
  ELSE LET room == IF Len(c.keys) >= c.capacity THEN LRUEvict(c) ELSE c
           linked == SetPrev(room.node, room.head, key)
           node == [k \in DOMAIN linked \cup {key} |->
                      IF k = key THEN Node(value, Undefined, room.head) ELSE linked[k]]
       IN [room EXCEPT !.keys = Append(room.keys, key),
                       !.node = node,
                       !.head = key,
                       !.tail = IF room.tail = Undefined THEN key ELSE room.tail]

\* size()
LRUSize(c) == Len(c.keys)

\* clear()
LRUClear(c) == NewLRUCache(c.capacity)

-----------------------------------------------------------------------------
(* file-processor: replaceImports and replaceImportPathInStatement.        *)

\* ImportMatch
ImportMatch(fullMatch, importPath, startIndex, endIndex, type) ==
  [fullMatch |-> fullMatch, importPath |-> importPath,
   startIndex |-> startIndex, endIndex |-> endIndex, type |-> type]

\* a value the code's `if (x)` takes for true: neither null nor ''
Truthy(x) == x # NULL /\ Len(x) > 0

RECURSIVE ConversionLookup(_, _)
\* a lookup that takes the last converted entry whatever its originalImport
ConversionLookupAnyKey(conversions, key) ==
  IF Len(conversions) = 0 THEN NULL
  ELSE LET c == conversions[Len(conversions)]
       IN IF Truthy(c.convertedImport) THEN c.convertedImport
          ELSE ConversionLookup(SubSeq(conversions, 1, Len(conversions) - 1), key)

\* conversionMap.get(key) after the loop that fills conversionMap: the
\* convertedImport of the last conversion of key that has one, else NULL
ConversionLookup(conversions, key) ==
  IF Len(conversions) = 0 THEN NULL
  ELSE LET c == conversions[Len(conversions)]
       IN IF c.originalImport = key /\ Truthy(c.convertedImport)
          THEN c.convertedImport
          ELSE ConversionLookup(SubSeq(conversions, 1, Len(conversions) - 1), key)

\* conversionMap.size === 0
ConversionMapEmpty(conversions) ==
  \A i \in 1..Len(conversions) : ~Truthy(conversions[i].convertedImport)

\* the comparator of an ascending sort
SortsBeforeAscending(b, a) == b.startIndex < a.startIndex

\* the comparator of the sort: b.startIndex - a.startIndex > 0 puts b first
SortsBefore(b, a) == b.startIndex > a.startIndex

\* insertion of m into a sorted list behind every element it does not
\* sort before (Array.prototype.sort is stable)
RECURSIVE InsertSorted(_, _)
InsertSorted(sorted, m) ==
  IF Len(sorted) = 0 THEN <<m>>
  ELSE IF SortsBefore(m, Head(sorted)) THEN <<m>> \o sorted
  ELSE <<Head(sorted)>> \o InsertSorted(Tail(sorted), m)

\* [...imports].sort((a, b) => b.startIndex - a.startIndex)
RECURSIVE SortImports(_)
SortImports(imports) ==
  IF Len(imports) = 0 THEN << >>
  ELSE InsertSorted(SortImports(SubSeq(imports, 1, Len(imports) - 1)),
                    imports[Len(imports)])

Quoted(q, path) == <<q>> \o path \o <<q>>

\* the quote character replaceImportPathInStatement settles on
DetectQuote(fullMatch, originalPath) ==
  IF Includes(fullMatch, Quoted("'", originalPath)) THEN "'"
  ELSE IF Includes(fullMatch, Quoted("\"", originalPath)) THEN "\""
  ELSE IF Includes(fullMatch, Quoted(BackQuote, originalPath)) THEN BackQuote
  ELSE "\""

\* replaceImportPathInStatement.  The dollar-sign patterns of
\* String.prototype.replace are not modelled: no converted path of the
\* rewrite inputs holds a dollar sign.
ReplaceImportPathInStatement(fullMatch, originalPath, newPath) ==
  LET quoteChar == DetectQuote(fullMatch, originalPath)
  IN ReplaceFirst(fullMatch, Quoted(quoteChar, originalPath),
                  Quoted(quoteChar, newPath))

\* one iteration of the for-loop of replaceImports
ReplaceOne(modifiedContent, importMatch, conversions) ==
  LET convertedImport == ConversionLookup(conversions, importMatch.importPath)
  IN IF Truthy(convertedImport)
     THEN Slice(modifiedContent, 0, importMatch.startIndex)
          \o ReplaceImportPathInStatement(importMatch.fullMatch,
                                          importMatch.importPath, convertedImport)
          \o SliceFrom(modifiedContent, importMatch.endIndex)
     ELSE modifiedContent

-----------------------------------------------------------------------------
(* import-parser: IMPORT_PATTERNS, the parse passes and findImports.       *)

Range(s) == {s[i] : i \in DOMAIN s}

\* the characters \w stands for
WordChars ==
  Range(<<"a","b","c","d","e","f","g","h","i","j","k","l","m","n","o","p","q","r","s","t","u","v","w","x","y","z","A","B","C","D","E","F","G","H","I","J","K","L","M","N","O","P","Q","R","S","T","U","V","W","X","Y","Z","0","1","2","3","4","5","6","7","8","9","_">>)

\* the characters ['"`] stands for
QuoteChars == {"'", "\"", BackQuote}

\* One atom of a pattern.  k is "lit" (the text s), "one" (one character of
\* the class), "plus" or "star" (a greedy run of the class) or "cap" (the
\* captured group, a greedy non-empty run); the class is set, or its
\* complement when neg.
Atom(k, s, neg, set) == [k |-> k, s |-> s, neg |-> neg, set |-> set]

Lit(s) == Atom("lit", s, FALSE, {})

\* \s+, \s*, \w+, [^}]*, ['"`] and ([^'"`]+)
Spaces1 == Atom("plus", << >>, FALSE, WhiteSpace)
Spaces0 == Atom("star", << >>, FALSE, WhiteSpace)
Word1 == Atom("plus", << >>, FALSE, WordChars)
NotBrace0 == Atom("star", << >>, TRUE, {"}"})
AnyQuote == Atom("one", << >>, FALSE, QuoteChars)
PathGroup == Atom("cap", << >>, TRUE, QuoteChars)

\* \s+from\s+['"`]([^'"`]+)['"`]
FromClause == <<Spaces1, Lit(<<"f","r","o","m">>), Spaces1, AnyQuote, PathGroup, AnyQuote>>

ES6_NAMED_IMPORT ==
  <<Lit(<<"i","m","p","o","r","t">>), Spaces1, Lit(<<"{">>), NotBrace0, Lit(<<"}">>)>> \o FromClause

ES6_DEFAULT_IMPORT == <<Lit(<<"i","m","p","o","r","t">>), Spaces1, Word1>> \o FromClause

ES6_NAMESPACE_IMPORT ==
  <<Lit(<<"i","m","p","o","r","t">>), Spaces1, Lit(<<"*">>), Spaces1, Lit(<<"a","s">>), Spaces1, Word1>>
  \o FromClause

ES6_MIXED_IMPORT ==
  <<Lit(<<"i","m","p","o","r","t">>), Spaces1, Word1, Spaces0, Lit(<<",">>), Spaces0,
    Lit(<<"{">>), NotBrace0, Lit(<<"}">>)>> \o FromClause

ES6_IMPORT_SIDE_EFFECT == <<Lit(<<"i","m","p","o","r","t">>), Spaces1, AnyQuote, PathGroup, AnyQuote>>

COMMONJS_REQUIRE ==
  <<Lit(<<"r","e","q","u","i","r","e">>), Spaces0, Lit(<<"(">>), Spaces0, AnyQuote, PathGroup, AnyQuote,
    Spaces0, Lit(<<")">>)>>

DYNAMIC_IMPORT ==
  <<Lit(<<"i","m","p","o","r","t">>), Spaces0, Lit(<<"(">>), Spaces0, AnyQuote, PathGroup, AnyQuote,
    Spaces0, Lit(<<")">>)>>

InClass(ch, atom) == (ch \in atom.set) # atom.neg

\* where the greedy run of atom's class that starts at pos ends
RECURSIVE Munch(_, _, _)
Munch(content, pos, atom) ==
  IF pos < Len(content) /\ InClass(content[pos + 1], atom)
  THEN Munch(content, pos + 1, atom) ELSE pos

NoExec == [ok |-> FALSE, end |-> 0, group |-> << >>]

\* The attempt to match the atoms of pattern from the i-th on at pos.  In
\* each pattern a run is followed by an atom that no character of the run's
\* class can begin, so the greedy run is the only one that can succeed.
RECURSIVE MatchAtoms(_, _, _, _, _)
MatchAtoms(pattern, content, pos, i, group) ==
  IF i > Len(pattern) THEN [ok |-> TRUE, end |-> pos, group |-> group]
  ELSE LET a == pattern[i]
           e == Munch(content, pos, a)
       IN CASE a.k = "lit" ->
                 IF pos + Len(a.s) <= Len(content)
                    /\ SubSeq(content, pos + 1, pos + Len(a.s)) = a.s
                 THEN MatchAtoms(pattern, content, pos + Len(a.s), i + 1, group)
                 ELSE NoExec
            [] a.k = "one" ->
                 IF pos < Len(content) /\ InClass(content[pos + 1], a)
                 THEN MatchAtoms(pattern, content, pos + 1, i + 1, group)
                 ELSE NoExec
            [] a.k = "star" -> MatchAtoms(pattern, content, e, i + 1, group)
            [] a.k = "plus" ->
                 IF e > pos THEN MatchAtoms(pattern, content, e, i + 1, group)
                 ELSE NoExec
            [] a.k = "cap" ->
                 IF e > pos
                 THEN MatchAtoms(pattern, content, e, i + 1, SubSeq(content, pos + 1, e))
                 ELSE NoExec

\* while ((match = pattern.exec(content)) !== null) from lastIndex on: every
\* match of the global pattern, left to right, each search starting where
\* the match before it ended; the matches with a relative path are pushed
RECURSIVE ExecLoop(_, _, _, _)
ExecLoop(pattern, content, lastIndex, type) ==
  IF lastIndex > Len(content) THEN << >>
  ELSE LET m == MatchAtoms(pattern, content, lastIndex, 1, << >>)
       IN IF ~m.ok THEN ExecLoop(pattern, content, lastIndex + 1, type)
          ELSE (IF IsRelative(m.group)
                THEN <<ImportMatch(SubSeq(content, lastIndex + 1, m.end), m.group,
                                   lastIndex, m.end, type)>>
                ELSE << >>)
               \o ExecLoop(pattern, content, m.end, type)

\* the pattern objects of IMPORT_PATTERNS the passes use, by name: every one
\* has the flag g, so each carries a lastIndex from one exec to the next
IMPORT_PATTERNS ==
  [ES6_IMPORT_SIDE_EFFECT |-> ES6_IMPORT_SIDE_EFFECT,
   COMMONJS_REQUIRE |-> COMMONJS_REQUIRE,
   DYNAMIC_IMPORT |-> DYNAMIC_IMPORT,
   ES6_NAMED_IMPORT |-> ES6_NAMED_IMPORT,
   ES6_DEFAULT_IMPORT |-> ES6_DEFAULT_IMPORT,
   ES6_NAMESPACE_IMPORT |-> ES6_NAMESPACE_IMPORT,
   ES6_MIXED_IMPORT |-> ES6_MIXED_IMPORT]

PatternNames == DOMAIN IMPORT_PATTERNS

\* the lastIndex of every pattern when the module is loaded
NoScan == [name \in PatternNames |-> 0]

\* one pattern.exec(content) of a pattern with the flag g: the first match
\* at or after lastIndex, and the lastIndex the call leaves (the end of the
\* match, or 0 when there is none)
RECURSIVE Exec(_, _, _)
Exec(pattern, content, lastIndex) ==
  IF lastIndex > Len(content)
  THEN [found |-> FALSE, index |-> 0, group |-> << >>, lastIndex |-> 0]
  ELSE LET m == MatchAtoms(pattern, content, lastIndex, 1, << >>)
       IN IF m.ok
          THEN [found |-> TRUE, index |-> lastIndex, group |-> m.group,
                lastIndex |-> m.end]
          ELSE Exec(pattern, content, lastIndex + 1)

\* a pass that starts its loop where the pattern was left
KeepLastIndex(lastIndex) == lastIndex

\* pattern.lastIndex = 0, the statement before every exec loop
ResetLastIndex(lastIndex) == 0

\* parseES6Imports(content), with the lastIndex values it finds
ParseES6Imports(content, lastIndex) ==
  ExecLoop(ES6_NAMED_IMPORT, content,
           ResetLastIndex(lastIndex.ES6_NAMED_IMPORT), "es6")
  \o ExecLoop(ES6_DEFAULT_IMPORT, content,
              ResetLastIndex(lastIndex.ES6_DEFAULT_IMPORT), "es6")
  \o ExecLoop(ES6_NAMESPACE_IMPORT, content,
              ResetLastIndex(lastIndex.ES6_NAMESPACE_IMPORT), "es6")
  \o ExecLoop(ES6_MIXED_IMPORT, content,
              ResetLastIndex(lastIndex.ES6_MIXED_IMPORT), "es6")
  \o ExecLoop(ES6_IMPORT_SIDE_EFFECT, content,
              ResetLastIndex(lastIndex.ES6_IMPORT_SIDE_EFFECT), "es6")

\* the lastIndex values parseES6Imports leaves: it resets every pattern of
\* IMPORT_PATTERNS first, and each of its loops ends on an exec without match
AfterParseES6Imports(lastIndex) == [name \in PatternNames |-> 0]

ParseCommonJSImports(content, lastIndex) ==
  ExecLoop(COMMONJS_REQUIRE, content, ResetLastIndex(lastIndex.COMMONJS_REQUIRE),
           "commonjs")

AfterParseCommonJSImports(lastIndex) == [lastIndex EXCEPT !.COMMONJS_REQUIRE = 0]

ParseDynamicImports(content, lastIndex) ==
  ExecLoop(DYNAMIC_IMPORT, content, ResetLastIndex(lastIndex.DYNAMIC_IMPORT),
           "dynamic")

AfterParseDynamicImports(lastIndex) == [lastIndex EXCEPT !.DYNAMIC_IMPORT = 0]

\* validateImportPath: the trimmed path, or NULL
ValidateImportPath(importPath) ==
  IF ~Truthy(importPath) THEN NULL
  ELSE LET trimmed == Trim(importPath)
       IN IF Len(trimmed) = 0 \/ Includes(trimmed, <<"\n">>) \/ Includes(trimmed, <<"\r">>)
          THEN NULL ELSE trimmed

\* allMatches.map(...).filter(match => match !== null)
RECURSIVE ValidMatches(_)
ValidMatches(allMatches) ==
  IF allMatches = << >> THEN << >>
  ELSE LET validPath == ValidateImportPath(Head(allMatches).importPath)
       IN (IF Truthy(validPath)
           THEN <<[Head(allMatches) EXCEPT !.importPath = validPath]>> ELSE << >>)
          \o ValidMatches(Tail(allMatches))

\* a comparator that takes every two matches for equal
CompareAsEqual(a, b) == 0

\* (a, b) => a.startIndex - b.startIndex
CompareByStart(a, b) == a.startIndex - b.startIndex

\* validMatches.sort(compare), a stable sort
RECURSIVE InsertByStart(_, _)
InsertByStart(sorted, m) ==
  IF sorted = << >> THEN <<m>>
  ELSE IF CompareByStart(m, Head(sorted)) < 0 THEN <<m>> \o sorted
  ELSE <<Head(sorted)>> \o InsertByStart(Tail(sorted), m)

RECURSIVE SortByStart(_)
SortByStart(matches) ==
  IF matches = << >> THEN << >>
  ELSE InsertByStart(SortByStart(SubSeq(matches, 1, Len(matches) - 1)),
                     matches[Len(matches)])

SamePlaceAndPath(match, prev) ==
  match.startIndex = prev.startIndex /\ match.importPath = prev.importPath

\* validMatches.filter((match, index) => ...): a match is dropped when the
\* one right before it in validMatches has its startIndex and importPath
UniqueMatches(validMatches) ==
  SelectSeq([index \in 1..Len(validMatches) |->
               [m |-> validMatches[index],
                keep |-> index = 1
                         \/ ~SamePlaceAndPath(validMatches[index],
                                              validMatches[index - 1])]],
            LAMBDA x : x.keep)

ParsingOptions(includeES6, includeCommonJS, includeDynamic) ==
  [includeES6 |-> includeES6, includeCommonJS |-> includeCommonJS,
   includeDynamic |-> includeDynamic]

DEFAULT_OPTIONS == ParsingOptions(TRUE, TRUE, TRUE)

\* the lastIndex values each pass of findImports finds and the ones the
\* call leaves; a call with an empty content returns before any pass
ScanOfFindImports(content, opts, lastIndex) ==
  LET es6 == IF opts.includeES6 THEN AfterParseES6Imports(lastIndex) ELSE lastIndex
      cjs == IF opts.includeCommonJS THEN AfterParseCommonJSImports(es6) ELSE es6
      dyn == IF opts.includeDynamic THEN AfterParseDynamicImports(cjs) ELSE cjs
  IN [atES6 |-> lastIndex, atCommonJS |-> es6, atDynamic |-> cjs,
      left |-> IF content = << >> THEN lastIndex ELSE dyn]

\* findImports(content, options), with the lastIndex values it finds.
\* safeParseImports hands on what the pass returns: no pass throws on a
\* string.
FindImports(content, opts, lastIndex) ==
  IF content = << >> THEN << >>
  ELSE LET at == ScanOfFindImports(content, opts, lastIndex)
           allMatches ==
             (IF opts.includeES6 THEN ParseES6Imports(content, at.atES6) ELSE << >>)
             \o (IF opts.includeCommonJS
                 THEN ParseCommonJSImports(content, at.atCommonJS) ELSE << >>)
             \o (IF opts.includeDynamic
                 THEN ParseDynamicImports(content, at.atDynamic) ELSE << >>)
           unique == UniqueMatches(SortByStart(ValidMatches(allMatches)))
       IN [index \in 1..Len(unique) |-> unique[index].m]

\* content.replace(/\/\*[\s\S]*?\*\//g, ''): every block comment, from an
\* opening mark to the first closing mark after it, is taken out
RECURSIVE StripBlockComments(_)
StripBlockComments(content) ==
  LET open == IndexOf(content, <<"/","*">>)
      close == IndexOf(SliceFrom(content, open + 2), <<"*","/">>)
  IN IF open = -1 \/ close = -1 THEN content
     ELSE Slice(content, 0, open)
          \o StripBlockComments(SliceFrom(content, open + close + 4))

\* the line terminators the dot of a pattern does not match
IsLineTerminator(c) == c \in {"\n", "\r"}

\* content.replace(/\/\/.*$/gm, ''): two slashes and the rest of the line
RECURSIVE StripLineComments(_)
StripLineComments(content) ==
  LET open == IndexOf(content, <<"/","/">>)
      ends == {i \in (open + 1)..Len(content) : IsLineTerminator(content[i])}
  IN IF open = -1 THEN content
     ELSE IF ends = {} THEN Slice(content, 0, open)
     ELSE Slice(content, 0, open)
          \o StripLineComments(
               SliceFrom(content, (CHOOSE i \in ends : \A j \in ends : i <= j) - 1))

\* the two calls of parseFunction safeParseImports can make
ParseAttempts == 2

\* parseFunction(content) of safeParseImports for a pass
ParseFunction(type, content, lastIndex) ==
  CASE type = "es6" -> ParseES6Imports(content, lastIndex)
    [] type = "commonjs" -> ParseCommonJSImports(content, lastIndex)
    [] type = "dynamic" -> ParseDynamicImports(content, lastIndex)

\* a catch block that returns [] at once
SafeParseImportsOnce(type, content, lastIndex, throws) ==
  IF throws = 0
  THEN [matches |-> ParseFunction(type, content, lastIndex), calls |-> <<content>>]
  ELSE [matches |-> << >>, calls |-> <<content>>]

\* safeParseImports(parseFunction, content, type) when the first throws
\* calls of parseFunction throw: the matches it returns and the contents
\* parseFunction was called with
SafeParseImports(type, content, lastIndex, throws) ==
  IF throws = 0
  THEN [matches |-> ParseFunction(type, content, lastIndex), calls |-> <<content>>]
  ELSE LET cleanContent == StripLineComments(StripBlockComments(content))
       IN IF throws = 1
          THEN [matches |-> ParseFunction(type, cleanContent, lastIndex),
                calls |-> <<content, cleanContent>>]
          ELSE [matches |-> << >>, calls |-> <<content, cleanContent>>]

NoPass == [matches |-> << >>, calls |-> << >>]

\* findImports(content, options) when the passes throw as throws says:
\* nothing outside the passes throws, so the call returns
FindImportsThrowing(content, opts, lastIndex, throws) ==
  IF content = << >>
  THEN [threw |-> FALSE, matches |-> << >>,
        calls |-> [type \in DOMAIN throws |-> << >>]]
  ELSE LET at == ScanOfFindImports(content, opts, lastIndex)
           es6 == IF opts.includeES6
                  THEN SafeParseImports("es6", content, at.atES6, throws.es6)
                  ELSE NoPass
           cjs == IF opts.includeCommonJS
                  THEN SafeParseImports("commonjs", content, at.atCommonJS,
                                        throws.commonjs)
                  ELSE NoPass
           dyn == IF opts.includeDynamic
                  THEN SafeParseImports("dynamic", content, at.atDynamic,
                                        throws.dynamic)
                  ELSE NoPass
           unique == UniqueMatches(SortByStart(ValidMatches(
                       es6.matches \o cjs.matches \o dyn.matches)))
       IN [threw |-> FALSE,
           matches |-> [index \in 1..Len(unique) |-> unique[index].m],
           calls |-> [es6 |-> es6.calls, commonjs |-> cjs.calls,
                      dynamic |-> dyn.calls]]

-----------------------------------------------------------------------------
(* ignore-manager: compilePatterns, the RegExp it builds, shouldIgnore.    *)

\* s.replace(/sub/g, new) for a pattern that stands for the one text sub
RECURSIVE ReplaceAll(_, _, _)
ReplaceAll(s, sub, new) ==
  IF Len(s) < Len(sub) THEN s
  ELSE IF SubSeq(s, 1, Len(sub)) = sub
  THEN new \o ReplaceAll(SubSeq(s, Len(sub) + 1, Len(s)), sub, new)
  ELSE <<s[1]>> \o ReplaceAll(Tail(s), sub, new)

\* the characters of the class [.+^${}()|[\]\\]
RegExpSpecials == {".", "+", "^", "$", "{", "}", "(", ")", "|", "[", "]", "\\"}

\* s.replace(/[.+^${}()|[\]\\]/g, '\\$&')
RECURSIVE EscapeSpecials(_)
EscapeSpecials(s) ==
  IF s = << >> THEN << >>
  ELSE (IF s[1] \in RegExpSpecials THEN <<"\\", s[1]>> ELSE <<s[1]>>)
       \o EscapeSpecials(Tail(s))

RegExp(source, flags) == [source |-> source, flags |-> flags]

\* new RegExp('$.^')
NeverMatches == RegExp(<<"$",".","^">>, "")

CleanPattern(pattern) ==
  IF StartsWith(pattern, <<"!">>) THEN SliceFrom(pattern, 1) ELSE pattern

\* the flags compilePatterns gives new RegExp
RegExpFlags == "i"

\* new RegExp(source) throws a SyntaxError: the source, read from its i-th
\* character with depth groups open, has a ')' without '(', a '(' or '['
\* that is not closed, a '\' at its end, or a quantifier with nothing to
\* repeat; prev tells whether an atom or a quantifier came last
RECURSIVE SyntaxErrorFrom(_, _, _, _)
SyntaxErrorFrom(source, i, depth, prev) ==
  IF i > Len(source) THEN depth # 0
  ELSE LET ch == source[i]
           closing == {k \in (i + 1)..Len(source) :
                         source[k] = "]" /\ source[k - 1] # "\\"}
       IN CASE ch = "\\" ->
                 i = Len(source) \/ SyntaxErrorFrom(source, i + 2, depth, "atom")
            [] ch = "[" ->
                 closing = {}
                 \/ SyntaxErrorFrom(source, (CHOOSE k \in closing :
                                               \A j \in closing : k <= j) + 1,
                                    depth, "atom")
            [] ch = "(" -> SyntaxErrorFrom(source, i + 1, depth + 1, "none")
            [] ch = ")" ->
                 depth = 0 \/ SyntaxErrorFrom(source, i + 1, depth - 1, "atom")
            [] ch \in {"*", "+"} ->
                 prev # "atom" \/ SyntaxErrorFrom(source, i + 1, depth, "quantifier")
            [] ch = "?" ->
                 prev = "none"
                 \/ SyntaxErrorFrom(source, i + 1, depth,
                                    IF prev = "atom" THEN "quantifier" ELSE "none")
            [] ch \in {"|", "^", "$"} -> SyntaxErrorFrom(source, i + 1, depth, "none")
            [] OTHER -> SyntaxErrorFrom(source, i + 1, depth, "atom")

SyntaxError(source) == SyntaxErrorFrom(source, 1, 0, "none")

\* the body of patterns.map in compilePatterns; when new RegExp throws,
\* the catch branch returns the expression that never matches
CompilePattern(pattern) ==
  LET cleanPattern == CleanPattern(pattern)
      isAbsolutePattern == StartsWith(cleanPattern, <<"/">>)
      unrooted == IF isAbsolutePattern THEN SliceFrom(cleanPattern, 1) ELSE cleanPattern
      replaced ==
        ReplaceAll(ReplaceAll(ReplaceAll(
          EscapeSpecials(
            ReplaceAll(ReplaceAll(ReplaceAll(unrooted,
              <<"*","*">>, <<"_","_","D","O","U","B","L","E","S","T","A","R","_","_">>),
              <<"*">>, <<"_","_","S","I","N","G","L","E","S","T","A","R","_","_">>),
              <<"?">>, <<"_","_","Q","U","E","S","T","I","O","N","_","_">>)),
          <<"_","_","D","O","U","B","L","E","S","T","A","R","_","_">>, <<".","*">>),
          <<"_","_","S","I","N","G","L","E","S","T","A","R","_","_">>, <<"[","^","/","]","*">>),
          <<"_","_","Q","U","E","S","T","I","O","N","_","_">>, <<"[","^","/","]">>)
      sliced ==
        IF EndsWith(cleanPattern, <<"/">>)
        THEN SubSeq(replaced, 1, Len(replaced) - 1) \o <<"(","/",".","*",")","?">>
        ELSE replaced
      regexPattern ==
        IF isAbsolutePattern THEN <<"^">> \o sliced \o <<"$">>
        ELSE IF Includes(cleanPattern, <<"/">>) THEN <<"(","^","|","/",")">> \o sliced \o <<"$">>
        ELSE <<"(","^","|","/",")">> \o sliced \o <<"(","/",".","*",")","?","$">>
  IN IF IsBlank(cleanPattern) \/ cleanPattern = <<"*","*">> \/ cleanPattern = <<"*","*","*">>
     THEN NeverMatches
     ELSE IF SyntaxError(regexPattern) THEN NeverMatches
     ELSE RegExp(regexPattern, RegExpFlags)

\* a compilation that leaves out the patterns without characters
CompileNonEmptyPatterns(patterns) ==
  LET kept == SelectSeq(patterns, LAMBDA pattern : pattern # << >>)
  IN [i \in 1..Len(kept) |-> CompilePattern(kept[i])]

\* compilePatterns(patterns)
CompilePatterns(patterns) ==
  [i \in 1..Len(patterns) |-> CompilePattern(patterns[i])]

\* The terms of the expressions compilePatterns builds, read off the source
\* from the left: (^|/), (/.*)?, .*, [^/]*, [^/], an escaped character, ^, $,
\* . and a character that stands for itself.
Term(t, ch) == [t |-> t, ch |-> ch]

RECURSIVE RegExpTerms(_)
RegExpTerms(source) ==
  IF source = << >> THEN << >>
  ELSE IF StartsWith(source, <<"(","^","|","/",")">>)
  THEN <<Term("startOrSlash", "")>> \o RegExpTerms(SliceFrom(source, 5))
  ELSE IF StartsWith(source, <<"(","/",".","*",")","?">>)
  THEN <<Term("optionalTail", "")>> \o RegExpTerms(SliceFrom(source, 6))
  ELSE IF StartsWith(source, <<".","*">>)
  THEN <<Term("anyRun", "")>> \o RegExpTerms(SliceFrom(source, 2))
  ELSE IF StartsWith(source, <<"[","^","/","]","*">>)
  THEN <<Term("noSlashRun", "")>> \o RegExpTerms(SliceFrom(source, 5))
  ELSE IF StartsWith(source, <<"[","^","/","]">>)
  THEN <<Term("noSlash", "")>> \o RegExpTerms(SliceFrom(source, 4))
  ELSE IF source[1] = "\\" /\ Len(source) > 1
  THEN <<Term("char", source[2])>> \o RegExpTerms(SliceFrom(source, 2))
  ELSE IF source[1] = "^"
  THEN <<Term("start", "")>> \o RegExpTerms(Tail(source))
  ELSE IF source[1] = "$"
  THEN <<Term("end", "")>> \o RegExpTerms(Tail(source))
  ELSE IF source[1] = "."
  THEN <<Term("any", "")>> \o RegExpTerms(Tail(source))
  ELSE <<Term("char", source[1])>> \o RegExpTerms(Tail(source))

UpperCase == <<"A","B","C","D","E","F","G","H","I","J","K","L","M","N","O","P","Q","R","S","T","U","V","W","X","Y","Z">>
LowerCase == <<"a","b","c","d","e","f","g","h","i","j","k","l","m","n","o","p","q","r","s","t","u","v","w","x","y","z">>

\* the letter both cases of a letter are compared as under the i flag
FoldCase(ch) ==
  IF \E k \in 1..Len(UpperCase) : UpperCase[k] = ch
  THEN LowerCase[CHOOSE k \in 1..Len(UpperCase) : UpperCase[k] = ch]
  ELSE ch

SameChar(a, b, flags) == IF flags = "i" THEN FoldCase(a) = FoldCase(b) ELSE a = b

\* the line terminators, which . does not match
LineTerminators == {"\n", "\r"}

\* the terms from the i-th on match a part of s that starts at pos
RECURSIVE TermsMatch(_, _, _, _, _)
TermsMatch(terms, i, s, pos, flags) ==
  IF i > Len(terms) THEN TRUE
  ELSE LET t == terms[i].t
           next(p) == TermsMatch(terms, i + 1, s, p, flags)
           \* the positions a run of characters outside stop can reach
           run(from, stop) ==
             {e \in from..Len(s) : \A k \in (from + 1)..e : s[k] \notin stop}
       IN CASE t = "start" -> pos = 0 /\ next(pos)
            [] t = "end" -> pos = Len(s) /\ next(pos)
            [] t = "startOrSlash" ->
                 \/ pos = 0 /\ next(pos)
                 \/ pos < Len(s) /\ s[pos + 1] = "/" /\ next(pos + 1)
            [] t = "optionalTail" ->
                 \/ next(pos)
                 \/ /\ pos < Len(s) /\ s[pos + 1] = "/"
                    /\ \E e \in run(pos + 1, LineTerminators) : next(e)
            [] t = "anyRun" -> \E e \in run(pos, LineTerminators) : next(e)
            [] t = "noSlashRun" -> \E e \in run(pos, {"/"}) : next(e)
            [] t = "noSlash" -> pos < Len(s) /\ s[pos + 1] # "/" /\ next(pos + 1)
            [] t = "any" ->
                 pos < Len(s) /\ s[pos + 1] \notin LineTerminators /\ next(pos + 1)
            [] t = "char" ->
                 pos < Len(s) /\ SameChar(s[pos + 1], terms[i].ch, flags)
                 /\ next(pos + 1)

\* regexp.test(s): the expression matches somewhere in s
RegExpTest(regexp, s) ==
  LET terms == RegExpTerms(regexp.source)
  IN \E pos \in 0..Len(s) : TermsMatch(terms, 1, s, pos, regexp.flags)

\* IgnoreState
IgnoreState(patterns) ==
  [patterns |-> CompilePatterns(patterns), originalPatterns |-> patterns]

\* IgnoreCheckResult
IgnoreCheckResult(shouldIgnore, matchedPattern) ==
  [shouldIgnore |-> shouldIgnore, matchedPattern |-> matchedPattern]

\* { shouldIgnore: false, reason: 'No ignore patterns matched' }
NoPatternMatched == IgnoreCheckResult(FALSE, NULL)

RECURSIVE ShouldIgnoreLoop(_, _, _, _)
\* an update that keeps the first match
NextLastMatchFirstWins(lastMatch, thisMatch) ==
  IF lastMatch = NoPatternMatched THEN thisMatch ELSE lastMatch

\* lastMatch = {...} in the loop of shouldIgnore
NextLastMatch(lastMatch, thisMatch) == thisMatch

\* for (let i = 0; i < state.patterns.length; i++), with i from 1
ShouldIgnoreLoop(state, cleanPath, i, lastMatch) ==
  IF i > Len(state.patterns) THEN lastMatch
  ELSE LET originalPattern == state.originalPatterns[i]
           isNegation == StartsWith(originalPattern, <<"!">>)
       IN ShouldIgnoreLoop(state, cleanPath, i + 1,
            IF RegExpTest(state.patterns[i], cleanPath)
            THEN NextLastMatch(lastMatch,
                               IgnoreCheckResult(~isNegation, originalPattern))
            ELSE lastMatch)

\* filePath.replace(/\\/g, '/') and the removal of one leading '/'
CleanPath(filePath) ==
  LET normalizedPath == ReplaceAll(filePath, <<"\\">>, <<"/">>)
  IN IF StartsWith(normalizedPath, <<"/">>) THEN SliceFrom(normalizedPath, 1)
     ELSE normalizedPath

\* shouldIgnore(state, filePath)
ShouldIgnore(state, filePath) ==
  ShouldIgnoreLoop(state, CleanPath(filePath), 1, NoPatternMatched)

\* shouldIgnoreDirectory(state, dirPath)
ShouldIgnoreDirectory(state, dirPath) ==
  LET normalizedDir == ReplaceAll(dirPath, <<"\\">>, <<"/">>)
      dirWithSlash == IF EndsWith(normalizedDir, <<"/">>) THEN normalizedDir
                      ELSE normalizedDir \o <<"/">>
  IN ShouldIgnore(state, dirWithSlash).shouldIgnore

-----------------------------------------------------------------------------
(* config-parser: parseConfig reads a tsconfig.json from the file system,  *)
(* merges the configurations it extends and builds the path mappings.  A   *)
(* file is modelled by what JSON.parse makes of its cleaned text: an       *)
(* object, or a SyntaxError.                                               *)

\* one key of the pathMappings map with its list of mappings
MapEntry(prefix, mappings) == [prefix |-> prefix, mappings |-> mappings]

\* TSConfigPaths: the keys of the paths object in their order, each with its
\* list of base paths; defined is FALSE for a paths key that is not there
Paths(defined, entries) == [defined |-> defined, entries |-> entries]

PathsEntry(alias, pathList) == [alias |-> alias, pathList |-> pathList]

NoPaths == Paths(FALSE, << >>)

\* interface TSConfig; a key that is not there is NULL, or defined = FALSE
TSConfig(extends, hasCompilerOptions, baseUrl, paths) ==
  [extends |-> extends,
   compilerOptions |-> [defined |-> hasCompilerOptions, baseUrl |-> baseUrl,
                        paths |-> paths]]

NoConfig == TSConfig(NULL, FALSE, NULL, NoPaths)

\* interface ParsedConfig
ParsedConfig(baseUrl, pathMappings, rootDir) ==
  [baseUrl |-> baseUrl, pathMappings |-> pathMappings, rootDir |-> rootDir]

\* what a call gives: the value it returns, or the Error it throws
Returned(value) == [threw |-> FALSE, message |-> NULL, value |-> value]

Thrown(message, nothing) == [threw |-> TRUE, message |-> message, value |-> nothing]

\* text.split(separator)[0]
FirstPart(text, separator) ==
  IF Includes(text, separator) THEN SubSeq(text, 1, IndexOf(text, separator)) ELSE text

\* the alias prefix buildPathMappingLookup files the mappings of alias under
AliasPrefix(alias) ==
  IF Includes(alias, <<"/">>) THEN FirstPart(alias, <<"/">>)
  ELSE IF Includes(alias, <<"*">>) THEN FirstPart(alias, <<"*">>)
  ELSE alias

\* the PathMapping of each base path of one alias
MappingsOf(entry, baseUrl, rootDir) ==
  [k \in 1..Len(entry.pathList) |->
     PathMapping(entry.alias, entry.pathList[k],
                 Resolve(Resolve(rootDir, baseUrl),
                         ReplaceFirst(entry.pathList[k], <<"/","*">>, << >>)))]

\* pathMappings.get(aliasPrefix).push(...mappings), with a new key at the end
PushMappings(pathMappings, aliasPrefix, mappings) ==
  IF \E i \in 1..Len(pathMappings) : pathMappings[i].prefix = aliasPrefix
  THEN [i \in 1..Len(pathMappings) |->
          IF pathMappings[i].prefix = aliasPrefix
          THEN MapEntry(aliasPrefix, pathMappings[i].mappings \o mappings)
          ELSE pathMappings[i]]
  ELSE Append(pathMappings, MapEntry(aliasPrefix, mappings))

\* buildPathMappingLookup(paths, baseUrl, rootDir): the loop over
\* Object.entries(paths), from entry k on
RECURSIVE BuildPathMappingLoop(_, _, _, _, _)
BuildPathMappingLoop(entries, k, baseUrl, rootDir, pathMappings) ==
  IF k > Len(entries) THEN pathMappings
  ELSE BuildPathMappingLoop(entries, k + 1, baseUrl, rootDir,
         PushMappings(pathMappings, AliasPrefix(entries[k].alias),
                      MappingsOf(entries[k], baseUrl, rootDir)))

BuildPathMappingLookup(entries, baseUrl, rootDir) ==
  BuildPathMappingLoop(entries, 1, baseUrl, rootDir, << >>)

\* loadTSConfig(configPath): readFileSync or JSON.parse may throw
LoadTSConfig(fs, configPath) ==
  IF configPath \notin DOMAIN fs
  THEN Thrown(<<"F","a","i","l","e","d"," ","t","o"," ","p","a","r","s","e"," ","t","s","c","o","n","f","i","g",".","j","s","o","n"," ","a","t"," ">> \o configPath \o <<":"," ","E","N","O","E","N","T">>, NoConfig)
  ELSE IF fs[configPath].syntaxError
  THEN Thrown(<<"F","a","i","l","e","d"," ","t","o"," ","p","a","r","s","e"," ","t","s","c","o","n","f","i","g",".","j","s","o","n"," ","a","t"," ">> \o configPath \o <<":"," ","S","y","n","t","a","x","E","r","r","o","r">>,
              NoConfig)
  ELSE Returned(fs[configPath].config)

\* resolveExtendedPath(extendsPath, configDir); a bare module name that
\* require.resolve does not find falls back to path.resolve
ResolveExtendedPath(extendsPath, configDir) ==
  IF IsRelative(extendsPath) THEN Resolve(configDir, extendsPath)
  ELSE IF StartsWith(extendsPath, <<"/">>) THEN extendsPath
  ELSE Resolve(configDir, extendsPath)

\* { ...parent, ...child } of two paths objects: a key of both keeps its
\* place and takes the child's list
MergePaths(parent, child) ==
  LET overridden ==
        [i \in 1..Len(parent.entries) |->
           LET same == {k \in 1..Len(child.entries) :
                          child.entries[k].alias = parent.entries[i].alias}
           IN IF same = {} THEN parent.entries[i]
              ELSE child.entries[CHOOSE k \in same : TRUE]]
      added == SelectSeq(child.entries,
                 LAMBDA e : \A i \in 1..Len(parent.entries) :
                              parent.entries[i].alias # e.alias)
  IN Paths(TRUE, overridden \o added)

\* the call stack a call starts with: the nested calls of
\* resolveExtendedConfig it has room for, and whether it runs out inside
\* the try block of loadTSConfig or outside of it
CallStack(frames, inLoad) == [frames |-> frames, inLoad |-> inLoad]

\* the RangeError of a call stack that is used up; loadTSConfig wraps it in
\* its own Error when it is thrown inside its try block
StackExhausted(configPath, stack) ==
  IF stack.inLoad
  THEN Thrown(<<"F","a","i","l","e","d"," ","t","o"," ","p","a","r","s","e"," ","t","s","c","o","n","f","i","g",".","j","s","o","n"," ","a","t"," ">> \o configPath
              \o <<":"," ","M","a","x","i","m","u","m"," ","c","a","l","l"," ","s","t","a","c","k"," ","s","i","z","e"," ","e","x","c","e","e","d","e","d">>, NoConfig)
  ELSE Thrown(<<"M","a","x","i","m","u","m"," ","c","a","l","l"," ","s","t","a","c","k"," ","s","i","z","e"," ","e","x","c","e","e","d","e","d">>, NoConfig)

\* resolveExtendedConfig(config, configDir): what it returns or throws, and
\* the paths loadTSConfig read for it, in the order of the calls
RECURSIVE ResolveExtendedConfig(_, _, _, _)
ResolveExtendedConfig(fs, config, configDir, stack) ==
  IF ~Truthy(config.extends) THEN [result |-> Returned(config), loads |-> << >>]
  ELSE LET extendedConfigPath == ResolveExtendedPath(config.extends, configDir)
           parentConfig == LoadTSConfig(fs, extendedConfigPath)
           resolved ==
             ResolveExtendedConfig(fs, parentConfig.value, Dirname(extendedConfigPath),
                                   CallStack(stack.frames - 1, stack.inLoad))
           resolvedParent == resolved.result
           parent == resolvedParent.value.compilerOptions
           child == config.compilerOptions
       IN IF stack.frames = 0
          THEN [result |-> StackExhausted(extendedConfigPath, stack), loads |-> << >>]
          ELSE IF parentConfig.threw
          THEN [result |-> parentConfig, loads |-> << >>]
          ELSE IF resolvedParent.threw
          THEN [result |-> resolvedParent,
                loads |-> <<extendedConfigPath>> \o resolved.loads]
          ELSE [result |->
                  Returned(TSConfig(config.extends, TRUE,
                    IF child.defined /\ child.baseUrl # NULL THEN child.baseUrl
                    ELSE IF parent.defined THEN parent.baseUrl ELSE NULL,
                    MergePaths(IF parent.defined THEN parent.paths ELSE NoPaths,
                               IF child.defined THEN child.paths ELSE NoPaths))),
                loads |-> <<extendedConfigPath>> \o resolved.loads]

\* a default that is never taken
OrNothing(value, fallback) == value

\* value || fallback
OrElse(value, fallback) == IF Truthy(value) THEN value ELSE fallback

NoParsedConfig == ParsedConfig(NULL, << >>, NULL)

\* parseConfig(configPath) on the file system fs, started with the call
\* stack stack
ParseConfig(fs, configPath, stack) ==
  LET resolvedConfigPath == Resolve(Cwd, configPath)
      config == LoadTSConfig(fs, resolvedConfigPath)
      mergedConfig ==
        ResolveExtendedConfig(fs, config.value, Dirname(resolvedConfigPath),
                              stack).result
      compilerOptions == mergedConfig.value.compilerOptions
      baseUrl == OrElse(IF compilerOptions.defined THEN compilerOptions.baseUrl ELSE NULL,
                        <<".">>)
      paths == IF compilerOptions.defined /\ compilerOptions.paths.defined
               THEN compilerOptions.paths.entries ELSE << >>
      rootDir == Dirname(resolvedConfigPath)
  IN IF resolvedConfigPath \notin DOMAIN fs
     THEN Thrown(<<"t","s","c","o","n","f","i","g",".","j","s","o","n"," ","n","o","t"," ","f","o","u","n","d"," ","a","t",":"," ">> \o resolvedConfigPath, NoParsedConfig)
     ELSE IF config.threw THEN Thrown(config.message, NoParsedConfig)
     ELSE IF mergedConfig.threw THEN Thrown(mergedConfig.message, NoParsedConfig)
     ELSE Returned(ParsedConfig(baseUrl, BuildPathMappingLookup(paths, baseUrl, rootDir),
                                rootDir))

\* the configuration files loadTSConfig read during parseConfig(configPath),
\* in the order of the calls
ConfigLoads(fs, configPath, stack) ==
  LET resolvedConfigPath == Resolve(Cwd, configPath)
      config == LoadTSConfig(fs, resolvedConfigPath)
  IN IF resolvedConfigPath \notin DOMAIN fs \/ config.threw THEN << >>
     ELSE <<resolvedConfigPath>>
          \o ResolveExtendedConfig(fs, config.value, Dirname(resolvedConfigPath),
                                   stack).loads

-----------------------------------------------------------------------------
(* file-processor: replaceImports as one call, and processFile on a file   *)
(* system.  A file is its content and whether it may be written; stat and  *)
(* readFile fail on a path without file, writeFile on a file that may not  *)
(* be written.                                                             *)

\* the for-loop of replaceImports from entry i of sortedImports on
RECURSIVE ReplaceLoop(_, _, _, _)
ReplaceLoop(modifiedContent, sortedImports, conversions, i) ==
  IF i > Len(sortedImports) THEN modifiedContent
  ELSE ReplaceLoop(ReplaceOne(modifiedContent, sortedImports[i], conversions),
                   sortedImports, conversions, i + 1)

\* replaceImports(content, imports, conversions)
ReplaceImports(content, imports, conversions) ==
  IF ConversionMapEmpty(conversions) THEN content
  ELSE ReplaceLoop(content, SortImports(imports), conversions, 1)

\* path.extname(p): from the last '.' of the last segment on, '' when that
\* segment has no '.' but at its start
Extname(p) ==
  LET segs == SplitSlash(p)
      base == segs[Len(segs)]
      dots == {i \in 1..Len(base) : base[i] = "."}
      last == CHOOSE i \in dots : \A j \in dots : j <= i
  IN IF dots = {} \/ last = 1 THEN << >> ELSE SubSeq(base, last, Len(base))

\* DEFAULT_OPTIONS.extensions
DefaultExtensions == { <<".","t","s">>, <<".","t","s","x">>, <<".","j","s">>, <<".","j","s","x">> }

\* DEFAULT_OPTIONS.maxFileSize, scaled from 10 MB to characters of a
\* modelled file
DefaultMaxFileSize == 60

\* { ...DEFAULT_OPTIONS, ...options }: the options processFile reads
ProcessingOptions(dryRun, maxFileSize) ==
  [dryRun |-> dryRun, extensions |-> DefaultExtensions, maxFileSize |-> maxFileSize]

\* ProcessingResult
ProcessingResult(filePath, conversions, modified, errors) ==
  [filePath |-> filePath, conversions |-> conversions, modified |-> modified,
   errors |-> errors]

\* a file of the file system
File(content, writable) == [content |-> content, writable |-> writable]

\* processFile up to readFile: the result it returns early, or the content
ProcessFileRead(files, filePath, opts) ==
  LET ext == Extname(filePath)
      early(error) ==
        [returned |-> TRUE, content |-> << >>,
         result |-> ProcessingResult(filePath, << >>, FALSE, <<error>>)]
  IN IF ext \notin opts.extensions
     THEN early(<<"U","n","s","u","p","p","o","r","t","e","d"," ","f","i","l","e"," ","e","x","t","e","n","s","i","o","n",":"," ">> \o ext)
     ELSE IF filePath \notin DOMAIN files
     THEN early(<<"E","r","r","o","r"," ","p","r","o","c","e","s","s","i","n","g"," ","f","i","l","e",":"," ","E","N","O","E","N","T">>)
     ELSE IF Len(files[filePath].content) > opts.maxFileSize
     THEN early(<<"F","i","l","e"," ","t","o","o"," ","l","a","r","g","e">>)
     ELSE [returned |-> FALSE, content |-> files[filePath].content,
           result |-> ProcessingResult(filePath, << >>, FALSE, << >>)]

\* for (const importMatch of imports) conversions.push(resolveImport(...)),
\* from import i on
RECURSIVE ResolveImports(_, _, _, _, _, _)
ResolveImports(resolved, state, imports, filePath, i, conversions) ==
  IF i > Len(imports) THEN [resolved EXCEPT !.result = conversions]
  ELSE LET Push(call) ==
             ResolveImports(call, state, imports, filePath, i + 1,
                            Append(conversions, call.result))
       IN Push(ResolveImportOn(resolved.cache, state, imports[i].importPath,
                               filePath))

\* a writeFile that leaves the file as it is
KeepFile(files, filePath, data) == files

\* fs.writeFile(filePath, data) where the file may be written or is not
\* there
WriteFile(files, filePath, data) ==
  [path \in DOMAIN files \cup {filePath} |->
     IF path # filePath THEN files[path]
     ELSE File(data, filePath \notin DOMAIN files \/ files[filePath].writable)]

\* processFile from findImports on, given the content it read: the result,
\* the file system, resolveCache and lastIndex values it leaves, the
\* writeFile calls it made, and the text replaceImports returned
ProcessFileRest(files, cache, answer, lastIndex, content, filePath, state, opts) ==
  LET Written(imports, resolved, successfulConversions, modifiedContent) ==
        LET conversions == resolved.result
            writes == ~opts.dryRun /\ modifiedContent # content
            out(result, fs, wrote, rewritten) ==
              [result |-> result, files |-> fs, cache |-> resolved.cache,
               answered |-> resolved.answered,
               lastIndex |-> ScanOfFindImports(content, DEFAULT_OPTIONS, lastIndex).left,
               wrote |-> wrote, read |-> content, rewritten |-> rewritten]
        IN IF Len(imports) = 0
           THEN out(ProcessingResult(filePath, << >>, FALSE, << >>), files, << >>,
                    content)
           ELSE IF Len(successfulConversions) = 0
           THEN out(ProcessingResult(filePath, conversions, FALSE, << >>), files,
                    << >>, content)
           ELSE IF writes /\ filePath \in DOMAIN files /\ ~files[filePath].writable
           THEN out(ProcessingResult(filePath, << >>, FALSE,
                                     << <<"E","r","r","o","r"," ","p","r","o","c","e","s","s","i","n","g"," ","f","i","l","e",":"," ","E","A","C","C","E","S">> >>),
                    files, << [path |-> filePath, data |-> modifiedContent] >>,
                    modifiedContent)
           ELSE IF writes
           THEN out(ProcessingResult(filePath, conversions, TRUE, << >>),
                    WriteFile(files, filePath, modifiedContent),
                    << [path |-> filePath, data |-> modifiedContent] >>,
                    modifiedContent)
           ELSE out(ProcessingResult(filePath, conversions, modifiedContent # content,
                                     << >>),
                    files, << >>, modifiedContent)
      Replaced(imports, resolved, successfulConversions) ==
        Written(imports, resolved, successfulConversions,
                ReplaceImports(content, imports, successfulConversions))
      Resolved(imports, resolved) ==
        Replaced(imports, resolved,
                 SelectSeq(resolved.result, LAMBDA c : c.convertedImport # NULL))
      Found(imports) ==
        Resolved(imports,
                 ResolveImports([result |-> << >>, cache |-> cache,
                                 answered |-> answer],
                                state, imports, filePath, 1, << >>))
  IN Found(FindImports(content, DEFAULT_OPTIONS, lastIndex))

\* processFile(filePath, resolverState, options) run without interruption
ProcessFile(files, cache, answer, lastIndex, filePath, state, opts) ==
  LET read == ProcessFileRead(files, filePath, opts)
  IN IF read.returned
     THEN [result |-> read.result, files |-> files, cache |-> cache,
           answered |-> answer, lastIndex |-> lastIndex, wrote |-> << >>,
           read |-> read.content, rewritten |-> read.content]
     ELSE ProcessFileRest(files, cache, answer, lastIndex, read.content, filePath,
                          state, opts)

\* a lookup that answers with the first entry whatever the key
ReplacementsGetFirst(replacements, key) ==
  IF Len(replacements) = 0 THEN NULL ELSE replacements[1].value

\* replacements.get(key) of the Map of import paths: the value, or NULL
ReplacementsGet(replacements, key) ==
  LET at == {i \in 1..Len(replacements) : replacements[i].key = key}
  IN IF at = {} THEN NULL ELSE replacements[CHOOSE i \in at : TRUE].value

\* the for-loop of batchReplaceImports from entry i of sortedImports on
RECURSIVE BatchReplaceLoop(_, _, _, _)
BatchReplaceLoop(modifiedContent, sortedImports, replacements, i) ==
  IF i > Len(sortedImports) THEN modifiedContent
  ELSE LET importMatch == sortedImports[i]
           newPath == ReplacementsGet(replacements, importMatch.importPath)
       IN BatchReplaceLoop(
            IF Truthy(newPath)
            THEN Slice(modifiedContent, 0, importMatch.startIndex)
                 \o ReplaceImportPathInStatement(importMatch.fullMatch,
                                                 importMatch.importPath, newPath)
                 \o SliceFrom(modifiedContent, importMatch.endIndex)
            ELSE modifiedContent,
            sortedImports, replacements, i + 1)

\* batchReplaceImports(content, replacements), with the lastIndex values
\* findImports finds
BatchReplaceImports(content, replacements, lastIndex) ==
  LET imports == FindImports(content, DEFAULT_OPTIONS, lastIndex)
      importsToReplace ==
        SelectSeq(imports,
                  LAMBDA imp : \E i \in 1..Len(replacements) :
                                 replacements[i].key = imp.importPath)
  IN IF Len(replacements) = 0 THEN content
     ELSE IF Len(importsToReplace) = 0 THEN content
     ELSE BatchReplaceLoop(content, SortImports(importsToReplace), replacements, 1)

-----------------------------------------------------------------------------
(* batch-processor: WorkerPool.  A job is the promise of one execute call; *)
(* the queue holds the numbers of the jobs.  What a worker emits is        *)
(* handled where it is emitted: the handlers run on the one thread of the  *)
(* pool.                                                                   *)

\* new Worker(workerScript): worker_threads numbers the threads it starts
\* from 1
NewWorker(threadId) == [threadId |-> threadId, inbox |-> << >>]

\* new WorkerPool(workerScript, poolSize)
NewWorkerPool(poolSize) ==
  [workers |-> [i \in 1..poolSize |-> NewWorker(i)], queue |-> << >>,
   activeJobs |-> 0, poolSize |-> poolSize, jobs |-> << >>, events |-> 0,
   pc |-> "running"]

\* the promise of execute(data): posted tells that its data went to a
\* worker, settled is pending, resolve or reject, and about is the job
\* whose posted data the settling message or error answers, 0 for one that
\* answers no posted data
Job(data) == [data |-> data, posted |-> FALSE, settled |-> "pending", about |-> 0]

\* !w.threadId
Falsy(threadId) == threadId = 0

\* processQueue()
ProcessQueue(p) ==
  LET available == {i \in 1..Len(p.workers) : Falsy(p.workers[i].threadId)}
      availableWorker == CHOOSE i \in available : \A k \in available : i <= k
      job == p.queue[1]
  IN IF Len(p.queue) = 0 \/ p.activeJobs >= p.poolSize THEN p
     ELSE IF available # {} /\ Len(p.queue) > 0
     THEN [p EXCEPT !.activeJobs = p.activeJobs + 1,
                    !.workers[availableWorker].inbox =
                       Append(p.workers[availableWorker].inbox, job),
                    !.jobs[job].posted = TRUE]
     ELSE p

\* execute(data): the executor of the promise
Execute(p, data) ==
  ProcessQueue([p EXCEPT !.jobs = Append(p.jobs, Job(data)),
                         !.queue = Append(p.queue, Len(p.jobs) + 1)])

\* the handler of 'message' (settle = resolve) and of 'error' (settle =
\* reject) for what worker w emits: the answer to the oldest message posted
\* to it, or a message of its own when nothing was posted
OnWorkerEvent(p, w, settle) ==
  LET inbox == p.workers[w].inbox
      about == IF inbox = << >> THEN 0 ELSE Head(inbox)
      taken == [p EXCEPT !.activeJobs = p.activeJobs - 1,
                         !.workers[w].inbox = IF inbox = << >> THEN << >>
                                              ELSE Tail(inbox),
                         !.events = p.events + 1]
      shifted == IF Len(p.queue) = 0 THEN taken
                 ELSE [taken EXCEPT !.queue = Tail(p.queue),
                                    !.jobs[p.queue[1]].settled = settle,
                                    !.jobs[p.queue[1]].about = about]
  IN ProcessQueue(shifted)

-----------------------------------------------------------------------------
(* memory-manager: MemoryAwareCache.  The Map is the sequence of its       *)
(* entries in insertion order; now is what Date.now() returns.             *)

MacEntry(key, value, lastAccessed, size) ==
  [key |-> key, value |-> value, lastAccessed |-> lastAccessed, size |-> size]

\* new MemoryAwareCache(maxSize), built at time now
NewMemoryAwareCache(maxSize, now) ==
  [cache |-> << >>, maxSize |-> maxSize, currentSize |-> 0, now |-> now,
   spinning |-> FALSE]

\* this.cache.get(key): the index of the entry, or 0
MacIndex(m, key) ==
  LET at == {i \in 1..Len(m.cache) : m.cache[i].key = key}
  IN IF at = {} THEN 0 ELSE CHOOSE i \in at : TRUE

\* estimateSize(value) of a string
EstimateSize(value) == Len(value) * 2

\* delete(key)
MacDelete(m, key) ==
  LET i == MacIndex(m, key)
  IN IF i = 0 THEN m
     ELSE [m EXCEPT !.currentSize = m.currentSize - m.cache[i].size,
                    !.cache = SelectSeq(m.cache, LAMBDA e : e.key # key)]

\* the key evictLRU finds: the first entry, in the order of the Map, last
\* accessed before now and before every entry ahead of it; 0 when every
\* entry was accessed at now
OldestKey(m) ==
  LET older == {i \in 1..Len(m.cache) : m.cache[i].lastAccessed < m.now}
  IN IF older = {} THEN 0
     ELSE CHOOSE i \in older :
            \A j \in older :
              \/ m.cache[i].lastAccessed < m.cache[j].lastAccessed
              \/ (m.cache[i].lastAccessed = m.cache[j].lastAccessed /\ i <= j)

\* evictLRU()
MacEvictLRU(m) ==
  IF OldestKey(m) = 0 THEN m ELSE MacDelete(m, m.cache[OldestKey(m)].key)

\* the while loop of set: evictLRU changes nothing while every entry was
\* accessed at now, and the loop goes round until the clock moves on;
\* spinning tells that the clock would pass maxNow
RECURSIVE MacMakeRoom(_, _, _)
MacMakeRoom(m, estimatedSize, maxNow) ==
  IF m.currentSize + estimatedSize > m.maxSize /\ Len(m.cache) > 0
  THEN IF OldestKey(m) # 0 THEN MacMakeRoom(MacEvictLRU(m), estimatedSize, maxNow)
       ELSE IF m.now < maxNow
       THEN MacMakeRoom([m EXCEPT !.now = m.now + 1], estimatedSize, maxNow)
       ELSE [m EXCEPT !.spinning = TRUE]
  ELSE m

\* this.cache.set(key, entry) of the Map: an entry of the key keeps its place
MapSet(cache, entry) ==
  IF \E i \in 1..Len(cache) : cache[i].key = entry.key
  THEN [i \in 1..Len(cache) |-> IF cache[i].key = entry.key THEN entry ELSE cache[i]]
  ELSE Append(cache, entry)

\* set(key, value, size); size 0 stands for a call without size
MacSet(m, key, value, size, maxNow) ==
  LET estimatedSize == IF size # 0 THEN size ELSE EstimateSize(value)
      known == IF MacIndex(m, key) # 0
               THEN [m EXCEPT !.currentSize =
                                m.currentSize - m.cache[MacIndex(m, key)].size]
               ELSE m
      room == MacMakeRoom(known, estimatedSize, maxNow)
  IN IF room.spinning THEN room
     ELSE [room EXCEPT
             !.cache = MapSet(room.cache,
                              MacEntry(key, value, room.now, estimatedSize)),
             !.currentSize = room.currentSize + estimatedSize]

\* get(key): the cache it leaves
MacGet(m, key) ==
  IF MacIndex(m, key) = 0 THEN m
  ELSE [m EXCEPT !.cache[MacIndex(m, key)].lastAccessed = m.now]

\* clear()
MacClear(m) == [m EXCEPT !.cache = << >>, !.currentSize = 0]

\* memoryUsage()
MemoryUsage(m) == m.currentSize

-----------------------------------------------------------------------------
(* batch-processor: processBatch, processWithConcurrency and               *)
(* processWithStreaming.  The processFile calls of one chunk run           *)
(* interleaved: each is split where it waits for the file it reads.        *)

\* BatchProcessingStats: the counters
BatchStats(totalFiles, processedFiles, failedFiles) ==
  [totalFiles |-> totalFiles, processedFiles |-> processedFiles,
   failedFiles |-> failedFiles]

\* one promise of chunk.map(async filePath => ...)
Task(filePath, pc, content, result) ==
  [filePath |-> filePath, pc |-> pc, content |-> content, result |-> result]

\* a streaming pass that starts over from the first file
AllFiles(files, i) == files

\* files.slice(i)
FilesFrom(files, i) == SliceFrom(files, i)

\* chunk.map(...): the promises of files.slice(j, j + concurrency) of a batch
ChunkTasks(batchFiles, j, concurrency) ==
  LET chunk == Slice(batchFiles, j, j + concurrency)
  IN [n \in 1..Len(chunk) |->
        Task(chunk[n], "start", << >>, ProcessingResult(chunk[n], << >>, FALSE, << >>))]

\* the loop over chunkResults: results.push(result.value) and the counters
RECURSIVE CollectChunk(_, _, _)
CollectChunk(tasks, n, acc) ==
  IF n > Len(tasks) THEN acc
  ELSE CollectChunk(tasks, n + 1,
         [results |-> Append(acc.results, tasks[n].result),
          processed |-> acc.processed + (IF tasks[n].result.errors = << >> THEN 1 ELSE 0),
          failed |-> acc.failed + (IF tasks[n].result.errors = << >> THEN 0 ELSE 1)])

\* one iteration of the loop of processWithStreaming: fs.stat, the size
\* test, and processFile
StreamFile(files, cache, answer, lastIndex, filePath, state, opts) ==
  LET failed(error) ==
        [result |-> ProcessingResult(filePath, << >>, FALSE, <<error>>),
         files |-> files, cache |-> cache, answered |-> answer,
         lastIndex |-> lastIndex, wrote |-> << >>, read |-> << >>,
         rewritten |-> << >>]
  IN IF filePath \notin DOMAIN files THEN failed(<<"E","N","O","E","N","T">>)
     ELSE IF Len(files[filePath].content) > opts.maxFileSize
     THEN failed(<<"F","i","l","e"," ","t","o","o"," ","l","a","r","g","e"," ","f","o","r"," ","s","t","r","e","a","m","i","n","g">>)
     ELSE ProcessFile(files, cache, answer, lastIndex, filePath, state, opts)

-----------------------------------------------------------------------------
(* Configurations and inputs.                                              *)

\* aliasLookup.get(key): the value, or NULL for undefined
AliasLookupGet(aliasLookup, key) ==
  LET at == {i \in 1..Len(aliasLookup) : aliasLookup[i].key = key}
  IN IF at = {} THEN NULL ELSE aliasLookup[CHOOSE i \in at : TRUE].value

\* aliasLookup.set(key, value): a key of the Map keeps its place
AliasLookupSet(aliasLookup, key, value) ==
  IF AliasLookupGet(aliasLookup, key) = NULL
  THEN Append(aliasLookup, [key |-> key, value |-> value])
  ELSE [i \in 1..Len(aliasLookup) |->
          IF aliasLookup[i].key = key THEN [key |-> key, value |-> value]
          ELSE aliasLookup[i]]

\* the loops of createPathResolver over the mappings, from mapping i on
RECURSIVE BuildAliasLookup(_, _, _)
BuildAliasLookup(mappings, i, aliasLookup) ==
  IF i > Len(mappings) THEN aliasLookup
  ELSE LET cleanResolvedBase == StripWildcard(mappings[i].resolvedBase)
           cleanAlias == StripWildcard(mappings[i].alias)
           existingAlias == AliasLookupGet(aliasLookup, cleanResolvedBase)
           stored == IF Truthy(existingAlias)
                     THEN AliasLookupGet(aliasLookup, existingAlias) ELSE NULL
       IN BuildAliasLookup(mappings, i + 1,
            IF ~Truthy(existingAlias)
               \/ Len(cleanResolvedBase) > (IF Truthy(stored) THEN Len(stored) ELSE 0)
            THEN AliasLookupSet(aliasLookup, cleanResolvedBase, cleanAlias)
            ELSE aliasLookup)

\* createPathResolver(config): pathMappings is a copy of config.pathMappings
CreatePathResolver(pathMappings) ==
  [pathMappings |-> pathMappings,
   aliasLookup |-> BuildAliasLookup(FlattenMappings(pathMappings), 1, << >>)]

\* paths: ~/* -> ./app/*, @/* -> ./src/*, @components/* -> ./src/components/*
\* rooted at /project
ProjectA == CreatePathResolver(<<
  MapEntry(<<"~">>, <<PathMapping(<<"~","/","*">>, <<".","/","a","p","p","/","*">>, <<"/","p","r","o","j","e","c","t","/","a","p","p">>)>>),
  MapEntry(<<"@">>, <<PathMapping(<<"@","/","*">>, <<".","/","s","r","c","/","*">>, <<"/","p","r","o","j","e","c","t","/","s","r","c">>)>>),
  MapEntry(<<"@","c","o","m","p","o","n","e","n","t","s">>,
    <<PathMapping(<<"@","c","o","m","p","o","n","e","n","t","s","/","*">>, <<".","/","s","r","c","/","c","o","m","p","o","n","e","n","t","s","/","*">>, <<"/","p","r","o","j","e","c","t","/","s","r","c","/","c","o","m","p","o","n","e","n","t","s">>)>>) >>)

\* another project's aliases for the same directories
ProjectB == CreatePathResolver(<<
  MapEntry(<<"#">>, <<PathMapping(<<"#","/","*">>, <<".","/","s","r","c","/","*">>, <<"/","p","r","o","j","e","c","t","/","s","r","c">>)>>),
  MapEntry(<<"u","i">>,
    <<PathMapping(<<"u","i","/","*">>, <<".","/","s","r","c","/","c","o","m","p","o","n","e","n","t","s","/","*">>, <<"/","p","r","o","j","e","c","t","/","s","r","c","/","c","o","m","p","o","n","e","n","t","s","/","*">>)>>) >>)

\* no alias at all
ProjectNone == CreatePathResolver(<< >>)

\* one prefix with two base directories, and two aliases for one directory
ProjectC == CreatePathResolver(<<
  MapEntry(<<"@">>, <<PathMapping(<<"@","/","*">>, <<".","/","s","r","c","/","*">>, <<"/","p","r","o","j","e","c","t","/","s","r","c">>),
                   PathMapping(<<"@","/","*">>, <<".","/","l","i","b","/","*">>, <<"/","p","r","o","j","e","c","t","/","l","i","b">>)>>),
  MapEntry(<<"$">>, <<PathMapping(<<"$","/","*">>, <<".","/","s","r","c","/","*">>, <<"/","p","r","o","j","e","c","t","/","s","r","c">>)>>),
  MapEntry(<<"l","i","b">>, <<PathMapping(<<"l","i","b","/","*">>, <<".","/","l","i","b","/","*">>, <<"/","p","r","o","j","e","c","t","/","l","i","b","/">>)>>) >>)

\* @ -> /p/src and @components -> /p/src/components
ProjectP == CreatePathResolver(<<
  MapEntry(<<"@">>, <<PathMapping(<<"@","/","*">>, <<".","/","s","r","c","/","*">>, <<"/","p","/","s","r","c">>)>>),
  MapEntry(<<"@","c","o","m","p","o","n","e","n","t","s">>,
    <<PathMapping(<<"@","c","o","m","p","o","n","e","n","t","s","/","*">>, <<".","/","s","r","c","/","c","o","m","p","o","n","e","n","t","s","/","*">>, <<"/","p","/","s","r","c","/","c","o","m","p","o","n","e","n","t","s">>)>>) >>)

ResolverStates == <<ProjectA, ProjectB, ProjectNone, ProjectC, ProjectP>>

\* the absolute paths findBestMatch is asked about
MatchPaths == {
  <<"/","p","/","s","r","c","/","c","o","m","p","o","n","e","n","t","s","/","B","u","t","t","o","n",".","t","s">>, <<"/","p","/","s","r","c","/","p","a","g","e","s","/","H","o","m","e",".","t","s","x">>, <<"/","p","/","s","r","c">>,
  <<"/","p","/","s","r","c","2","/","x",".","t","s">>, <<"/","p","/","s","r","c","/","c","o","m","p","o","n","e","n","t","s">>, <<"/","p","/","s","r","c","/","c","o","m","p","o","n","e","n","t","s","O","l","d","/","a">>,
  <<"/","p","r","o","j","e","c","t","/","s","r","c","/","c","o","m","p","o","n","e","n","t","s","/","B","u","t","t","o","n",".","t","s">>, <<"/","p","r","o","j","e","c","t","/","a","p","p","/","c","o","m","p","o","n","e","n","t","s","/","B","u","t","t","o","n",".","t","s">>,
  <<"/","p","r","o","j","e","c","t","/","s","r","c","/","u","t","i","l","s","/","h","e","l","p","e","r","s","/","f","o","r","m","a","t",".","t","s">>, <<"/","o","t","h","e","r","/","p","r","o","j","e","c","t","/","f","i","l","e",".","t","s">>,
  <<"/","p","r","o","j","e","c","t","/","s","r","c">>, <<"/","p","r","o","j","e","c","t","/","s","r","c","/">>, <<"/","p","r","o","j","e","c","t","/","s","r","c","/","c","o","m","p","o","n","e","n","t","s">>,
  <<"/","p","r","o","j","e","c","t","/","s","r","c","s","/","a">>, <<"/","p","r","o","j","e","c","t","/","l","i","b","/","a">>, <<"/","p","r","o","j","e","c","t","/","l","i","b">>, <<"/","p","r","o","j","e","c","t","/","l","i","b","r","a","r","y","/","a">>,
  <<"/","p","r","o","j","e","c","t","/","s","r","c","/",".",".","/","a","p","p","/","x">>, <<"/","p","r","o","j","e","c","t","/","/","s","r","c","/",".","/","c","o","m","p","o","n","e","n","t","s","/","y">>, <<"/","p","r","o","j","e","c","t","/","a","p","p","/",".",".","/","s","r","c">>,
  <<"/","p","r","o","j","e","c","t">>, <<"/">>, <<>>, <<"p","r","o","j","e","c","t","/","s","r","c","/","a">>, <<"/","p","r","o","j","e","c","t","/","s","r","c","/","p","a","g","e","s","/",".",".","/","c","o","m","p","o","n","e","n","t","s","/","B","u","t","t","o","n">> }

\* a file of the file system: what JSON.parse makes of its text
ConfigFile(exists, syntaxError, config) ==
  [exists |-> exists, syntaxError |-> syntaxError, config |-> config]

MissingFile == ConfigFile(FALSE, FALSE, NoConfig)

\* the paths objects of the configurations parseConfig is given
PathsChoices == {
  NoPaths,
  Paths(TRUE, << >>),
  Paths(TRUE, << PathsEntry(<<"~","/","*">>, << <<".","/","a","p","p","/","*">> >>) >>),
  Paths(TRUE, << PathsEntry(<<"@","/","*">>, << <<".","/","s","r","c","/","*">>, <<".","/","l","i","b","/","*">> >>),
                 PathsEntry(<<"@","c","o","m","p","o","n","e","n","t","s","/","*">>, << <<".","/","s","r","c","/","c","o","m","p","o","n","e","n","t","s","/","*">> >>),
                 PathsEntry(<<"@","/","x">>, << <<".","/","x">> >>) >>) }

\* /project/tsconfig.json: missing, not JSON, or a configuration with or
\* without compilerOptions, baseUrl, paths and extends
MainFiles ==
  {MissingFile, ConfigFile(TRUE, TRUE, NoConfig)}
  \cup {ConfigFile(TRUE, FALSE, TSConfig(extends, FALSE, NULL, NoPaths)) :
          extends \in {NULL, <<".","/","b","a","s","e",".","j","s","o","n">>}}
  \cup {ConfigFile(TRUE, FALSE, TSConfig(extends, TRUE, baseUrl, paths)) :
          extends \in {NULL, <<".","/","b","a","s","e",".","j","s","o","n">>}, baseUrl \in {NULL, <<".">>, <<".","/","s","r","c">>},
          paths \in PathsChoices}

\* /project/base.json, the configuration the main one may extend
ParentFiles == {
  MissingFile,
  ConfigFile(TRUE, TRUE, NoConfig),
  ConfigFile(TRUE, FALSE, TSConfig(NULL, FALSE, NULL, NoPaths)),
  ConfigFile(TRUE, FALSE,
    TSConfig(NULL, TRUE, <<".","/","b","a","s","e">>,
             Paths(TRUE, << PathsEntry(<<"~","/","*">>, << <<".","/","s","h","a","r","e","d","/","*">> >>),
                            PathsEntry(<<"#","/","*">>, << <<".","/","t","y","p","e","s","/","*">> >>) >>))) }

\* the file systems parseConfig reads: the files that exist, by path
FileSystems ==
  {[path \in {q \in {<<"/","p","r","o","j","e","c","t","/","t","s","c","o","n","f","i","g",".","j","s","o","n">>, <<"/","p","r","o","j","e","c","t","/","b","a","s","e",".","j","s","o","n">>} :
                IF q = <<"/","p","r","o","j","e","c","t","/","t","s","c","o","n","f","i","g",".","j","s","o","n">> THEN main.exists ELSE parent.exists}
      |-> IF path = <<"/","p","r","o","j","e","c","t","/","t","s","c","o","n","f","i","g",".","j","s","o","n">> THEN main ELSE parent] :
     main \in MainFiles, parent \in ParentFiles}

ConfigPaths ==
  { <<"/","p","r","o","j","e","c","t","/","t","s","c","o","n","f","i","g",".","j","s","o","n">>, <<"/","p","r","o","j","e","c","t","/","s","u","b","/",".",".","/","t","s","c","o","n","f","i","g",".","j","s","o","n">>, <<"t","s","c","o","n","f","i","g",".","j","s","o","n">> }

\* the calls of resolveExtendedConfig the call stack has room for
MaxCallStack == 4

\* file systems whose configurations extend one another, some in a cycle
ExtendingFileSystems ==
  {[path \in { <<"/","p","r","o","j","e","c","t","/","t","s","c","o","n","f","i","g",".","j","s","o","n">>, <<"/","p","r","o","j","e","c","t","/","b","a","s","e",".","j","s","o","n">> } |->
      IF path = <<"/","p","r","o","j","e","c","t","/","t","s","c","o","n","f","i","g",".","j","s","o","n">>
      THEN ConfigFile(TRUE, FALSE, TSConfig(mainExtends, TRUE, NULL, mainPaths))
      ELSE ConfigFile(TRUE, FALSE, TSConfig(baseExtends, TRUE, <<".","/","b","a","s","e">>, basePaths))] :
     mainExtends \in {NULL, <<".","/","b","a","s","e",".","j","s","o","n">>, <<".","/","t","s","c","o","n","f","i","g",".","j","s","o","n">>},
     baseExtends \in {NULL, <<".","/","t","s","c","o","n","f","i","g",".","j","s","o","n">>, <<".","/","b","a","s","e",".","j","s","o","n">>, <<".","/","m","i","s","s","i","n","g",".","j","s","o","n">>},
     mainPaths \in {NoPaths, Paths(TRUE, << PathsEntry(<<"~","/","*">>, << <<".","/","a","p","p","/","*">> >>) >>)},
     basePaths \in {NoPaths, Paths(TRUE, << PathsEntry(<<"#","/","*">>, << <<".","/","t","y","p","e","s","/","*">> >>) >>)}}

\* the largest capacity an LRUCache is built with, and the keys and values
\* it is given
MaxCapacity == 3

CacheKeys == {"a", "b", "c", "d"}

CacheValues == {"x", "y"}

\* the files processFile is pointed at, the texts an editor leaves in
\* them, and the options of a run
ProcessPaths == { <<"/","p","r","o","j","e","c","t","/","s","r","c","/","p","a","g","e","s","/","H","o","m","e",".","t","s","x">> }

OtherPaths ==
  { <<"/","p","r","o","j","e","c","t","/","s","r","c","/","u","t","i","l",".","t","s">>, <<"/","p","r","o","j","e","c","t","/","n","o","t","e","s",".","m","d">>, <<"/","p","r","o","j","e","c","t","/","s","r","c","/","g","o","n","e",".","t","s">> }

FileContents == {
  <<"i","m","p","o","r","t"," ","a"," ","f","r","o","m"," ","'",".",".","/","a","'",";">>,
  <<"i","m","p","o","r","t"," ","a"," ","f","r","o","m"," ","'",".","/","a","\"",";">>,
  <<"c","o","n","s","t"," ","x"," ","="," ","1",";">>,
  <<"i","m","p","o","r","t"," ","x"," ","f","r","o","m"," ","'",".",".","/",".",".","/",".",".","/","e","x","t","/","x","'",";">> }

InitialFiles ==
  [path \in ProcessPaths \cup { <<"/","p","r","o","j","e","c","t","/","s","r","c","/","u","t","i","l",".","t","s">>, <<"/","p","r","o","j","e","c","t","/","n","o","t","e","s",".","m","d">> } |->
     File(<<"i","m","p","o","r","t"," ","a"," ","f","r","o","m"," ","'",".",".","/","a","'",";">>, TRUE)]

ProcessOptions ==
  {ProcessingOptions(dryRun, maxFileSize) :
     dryRun \in BOOLEAN, maxFileSize \in {DefaultMaxFileSize, 10}}

\* the resolver state a run has built
ProcessStates == {1}

\* the longest list of files processBatch is given, the files, and the
\* concurrency and batchSize options
MaxFiles == 3

BatchPaths ==
  { <<"/","p","r","o","j","e","c","t","/","s","r","c","/","p","a","g","e","s","/","H","o","m","e",".","t","s","x">>, <<"/","p","r","o","j","e","c","t","/","s","r","c","/","u","t","i","l",".","t","s">>, <<"/","p","r","o","j","e","c","t","/","s","r","c","/","g","o","n","e",".","t","s">> }

BatchSizes == {1, 2}

\* the source files and import literals resolveImport is called with
SourceFiles == { <<"/","p","r","o","j","e","c","t","/","s","r","c","/","p","a","g","e","s","/","H","o","m","e",".","t","s","x">>, <<>> }

ImportLiterals == { <<".",".","/","c","o","m","p","o","n","e","n","t","s","/","B","u","t","t","o","n">>, <<".",".","/","c","o","m","p","o","n","e","n","t","s">>,
                    <<".",".","/",".",".","/",".",".","/","e","x","t","e","r","n","a","l","/","l","i","b">>, <<".",".","/",".",".","/","s","r","c","-","o","l","d","/","x">>, <<"r","e","a","c","t">> }

\* the source files and import literals of one conversion run; a file name
\* and an import literal may hold a colon
RunFiles == { <<"/","p","r","o","j","e","c","t","/","s","r","c","/","p","a","g","e","s","/","H","o","m","e",".","t","s","x">>, <<"/","p","r","o","j","e","c","t","/","s","r","c","/","p","a","g","e","s","/","H","o","m","e",".","t","s","x",":",".","/","a">>,
              <<>>, <<" ">> }

RunLiterals == { <<".","/","c">>, <<".","/","a",":",".","/","c">>, <<"r","e","a","c","t">> }

\* the configurations resolveImport is called with, as indexes of ResolverStates
ResolveStates == {1, 2, 3}

\* the longest imports and conversions lists replaceImports is given
MaxMatches == 2
MaxConversions == 2

\* the lists of at most n different elements of S
SeqsUpTo(S, n) ==
  UNION {{f \in [1..k -> S] : \A a, b \in 1..k : a # b => f[a] # f[b]} : k \in 0..n}

\* the paths objects of the configurations createPathResolver is given:
\* up to MaxAliases aliases, each with a list of base paths
MaxAliases == 3

AliasChoices == { <<"@","/","*">>, <<"~","/","*">>, <<"/","p","r","o","j","e","c","t","/","s","r","c","/","*">> }

PathListChoices ==
  { << <<".","/","s","r","c","/","*">> >>, << <<".","/","a","p","p","/","*">> >>, << <<".","/","s","r","c","/","*">>, <<".","/","s","r","c","/","l","i","b","/","*">> >> }

ResolverPaths ==
  {entries \in SeqsUpTo({PathsEntry(alias, pathList) :
                           alias \in AliasChoices, pathList \in PathListChoices},
                        MaxAliases) :
     \A a, b \in 1..Len(entries) : a # b => entries[a].alias # entries[b].alias}

\* file contents handed to replaceImports
ContentPlain ==
  <<"i","m","p","o","r","t"," ","a"," ","f","r","o","m"," ","'",".","/","a","'",";","\n","i","m","p","o","r","t"," ","b"," ","f","r","o","m"," ","\"",".",".","/","b","\"",";","\n","c","o","n","s","t"," ","s"," ","="," ","'",".","/","a","'",";"," ","r","e","q","u","i","r","e","(","BQ",".","/","c","BQ",")">>

ContentNested == <<"i","m","p","o","r","t"," ","{"," ","i","m","p","o","r","t"," ","x"," ","f","r","o","m"," ","'",".","/","b","'"," ","}"," ","f","r","o","m"," ","BQ",".","/","a","BQ",";">>

\* two textually identical statements, and passes that find their matches
\* out of the order of the text
ContentRepeated ==
  <<"r","e","q","u","i","r","e","(","'",".","/","a","'",")",";","\n","i","m","p","o","r","t"," ","'",".","/","a","'",";","\n","i","m","p","o","r","t"," ","a"," ","f","r","o","m"," ","'",".","/","a","'",";","\n","r","e","q","u","i","r","e","(","'",".","/","a","'",")",";">>

RewriteContents == {ContentPlain, ContentNested}

\* the contents and the Maps of replacements batchReplaceImports is given
BatchContents ==
  { ContentPlain, ContentRepeated, <<"i","m","p","o","r","t"," ","a"," ","f","r","o","m"," ","'",".","/","a","\"",";">>, << >> }

MaxReplacements == 2

ReplacementChoices == {
  [key |-> <<".","/","a">>, value |-> <<"@","/","a">>],
  [key |-> <<".","/","a">>, value |-> << >>],
  [key |-> <<".",".","/","b">>, value |-> <<"~","/","l","i","b","/","b">>],
  [key |-> <<".","/","c">>, value |-> <<"@","/","c">>],
  [key |-> <<".","/","z","z","z">>, value |-> <<"@","/","z","z","z">>],
  [key |-> <<"r","e","a","c","t">>, value |-> <<"p","r","e","a","c","t">>] }

ReplacementMaps ==
  {entries \in SeqsUpTo(ReplacementChoices, MaxReplacements) :
     \A a, b \in 1..Len(entries) : a # b => entries[a].key # entries[b].key}

\* the match of statement stmt in content: fullMatch = content[start, end)
MatchOf(content, stmt, importPath, type) ==
  ImportMatch(stmt, importPath, IndexOf(content, stmt),
              IndexOf(content, stmt) + Len(stmt), type)

\* the matches a caller may pass for a content
CandidateMatches(content) ==
  IF content = ContentPlain
  THEN { MatchOf(content, <<"i","m","p","o","r","t"," ","a"," ","f","r","o","m"," ","'",".","/","a","'">>, <<".","/","a">>, "es6"),
         MatchOf(content, <<"i","m","p","o","r","t"," ","b"," ","f","r","o","m"," ","\"",".",".","/","b","\"">>, <<".",".","/","b">>, "es6"),
         MatchOf(content, <<"r","e","q","u","i","r","e","(","BQ",".","/","c","BQ",")">>, <<".","/","c">>, "commonjs"),
         MatchOf(content, <<"f","r","o","m"," ","'",".","/","a","'",";","\n","i","m","p","o","r","t"," ","b">>, <<".","/","a">>, "es6") }
  ELSE { MatchOf(content, <<"i","m","p","o","r","t"," ","{"," ","i","m","p","o","r","t"," ","x"," ","f","r","o","m"," ","'",".","/","b","'"," ","}"," ","f","r","o","m"," ","BQ",".","/","a","BQ">>, <<".","/","a">>, "es6"),
         MatchOf(content, <<"i","m","p","o","r","t"," ","x"," ","f","r","o","m"," ","'",".","/","b","'">>, <<".","/","b">>, "es6") }

\* the conversions a caller may pass
CandidateConversions == {
  Conversion(<<".","/","a">>, <<"@","/","a">>, ReasonConverted(<<"@","/","*">>)),
  Conversion(<<".",".","/","b">>, <<"~","/","l","i","b","/","b">>, ReasonConverted(<<"~","/","*">>)),
  Conversion(<<".",".","/","b">>, NULL, ReasonNoAlias),
  Conversion(<<".","/","b">>, <<"@","c","o","m","p","o","n","e","n","t","s","/","b">>, ReasonConverted(<<"@","c","o","m","p","o","n","e","n","t","s","/","*">>)),
  Conversion(<<".","/","c">>, <<"@","/","c">>, ReasonConverted(<<"@","/","*">>)),
  Conversion(<<".","/","z","z","z">>, <<"@","/","z","z","z">>, ReasonConverted(<<"@","/","*">>)),
  Conversion(<<".","/","a">>, <<"$">>, ReasonConverted(<<"$", "/", "*">>)) }

\* the statement of one import syntax around a quoted path literal
Statement(syntax, name, q, literal) ==
  CASE syntax = "named" ->
         <<"i","m","p","o","r","t"," ","{"," ">> \o name \o <<" ","}"," ","f","r","o","m"," ">> \o Quoted(q, literal) \o <<";">>
    [] syntax = "default" ->
         <<"i","m","p","o","r","t"," ">> \o name \o <<" ","f","r","o","m"," ">> \o Quoted(q, literal) \o <<";">>
    [] syntax = "namespace" ->
         <<"i","m","p","o","r","t"," ","*"," ","a","s"," ">> \o name \o <<" ","f","r","o","m"," ">> \o Quoted(q, literal) \o <<";">>
    [] syntax = "mixed" ->
         <<"i","m","p","o","r","t"," ">> \o name \o <<","," ","{"," ","b"," ","}"," ","f","r","o","m"," ">> \o Quoted(q, literal) \o <<";">>
    [] syntax = "side-effect" -> <<"i","m","p","o","r","t"," ">> \o Quoted(q, literal) \o <<";">>
    [] syntax = "require" ->
         <<"c","o","n","s","t"," ">> \o name \o <<" ","="," ","r","e","q","u","i","r","e","(">> \o Quoted(q, literal) \o <<")",";">>
    [] syntax = "dynamic" ->
         <<"c","o","n","s","t"," ">> \o name \o <<" ","="," ","a","w","a","i","t"," ","i","m","p","o","r","t","(">> \o Quoted(q, literal) \o <<")",";">>

ImportSyntaxes ==
  {"named", "default", "namespace", "mixed", "side-effect", "require", "dynamic"}

\* the names a statement binds: both are JavaScript identifiers
BindingNames == { <<"a">>, <<"$">> }

\* the path literals of the statements findImports is given
LocatorLiterals == { <<".","/","a">>, <<".",".","/","b">>, <<"r","e","a","c","t">>, <<"@","/","c">>, <<".","/","d"," ">>, <<".","/","e","\n","f">> }

\* file contents handed to findImports
LocatorContents ==
  {Statement(syntax, name, q, literal) :
     syntax \in ImportSyntaxes, name \in BindingNames, q \in QuoteChars,
     literal \in LocatorLiterals}
  \cup {ContentPlain, ContentNested, ContentRepeated, << >>}

\* file contents of the calls that share the pattern objects
ScanContents == {ContentPlain, ContentRepeated, << >>}

LocatorOptions == {DEFAULT_OPTIONS, ParsingOptions(FALSE, TRUE, TRUE)}

\* contents with comments, and how often each pass throws
ContentCommented ==
  <<"/","*","i","m","p","o","r","t"," ","'",".","/","x","'","*","/","i","m","p","o","r","t"," ","'",".","/","a","'",";","/","/","r","e","q","u","i","r","e","(","'",".","/","r","'",")","\n","r","e","q","u","i","r","e","(","'",".","/","b","'",")",";","i","m","p","o","r","t","(","'",".","/","c","'",")">>

ContentWithUrl == <<"c","o","n","s","t"," ","u"," ","="," ","'","h","t","t","p",":","/","/","h","'",";"," ","i","m","p","o","r","t","(","'",".","/","c","'",")"," ","/","*"," ","o","p","e","n">>

ThrowingContents == {ContentCommented, ContentWithUrl, <<"i","m","p","o","r","t"," ","a"," ","f","r","o","m"," ","'",".","/","a","'",";">>, << >>}

PassThrows == [es6 : 0..ParseAttempts, commonjs : 0..ParseAttempts,
               dynamic : 0..ParseAttempts]

DEFAULT_IGNORE_PATTERNS ==
  << <<"n","o","d","e","_","m","o","d","u","l","e","s","/","*","*">>, <<"*","*","/","*",".","d",".","t","s">>, <<"d","i","s","t","/","*","*">>, <<"b","u","i","l","d","/","*","*">>, <<".","g","i","t","/","*","*">>,
     <<"*","*","/",".","D","S","_","S","t","o","r","e">> >>

\* the pattern lists compilePatterns and createIgnoreState are given; the
\* next to last is what createIgnoreState compiles without an ignore file
IgnorePatternLists == {
  << >>,
  << <<"*",".","l","o","g">>, <<"!","i","m","p","o","r","t","a","n","t",".","l","o","g">> >>,
  << <<"!","i","m","p","o","r","t","a","n","t",".","l","o","g">>, <<"*",".","l","o","g">> >>,
  << <<"*",".","l","o","g">>, <<"!","*",".","l","o","g">>, <<"e","r","r","o","r",".","l","o","g">> >>,
  << <<"n","o","d","e","_","m","o","d","u","l","e","s","/","*","*">>, <<"d","o","c","s","/","*">>, <<"/","r","o","o","t","-","o","n","l","y",".","t","x","t">> >>,
  << <<"b","u","i","l","d","/">>, <<"t","e","?","t",".","j","s">>, <<"!","/","d","o","c","s","/">> >>,
  << <<"R","E","A","D","M","E",".","m","d">>, <<"!","s","r","c","/","*","*","/","*",".","m","d">> >>,
  << <<"*","*">>, <<>>, <<"*","*","*">>, <<" ">> >>,
  << <<>>, <<" "," "," ">>, <<"*",".">>, <<"*","*">>, <<"*","*","*">>, <<"[","i","n","v","a","l","i","d">>, <<"n","o","r","m","a","l",".","t","x","t">> >>,
  DEFAULT_IGNORE_PATTERNS \o << <<"n","o","d","e","_","m","o","d","u","l","e","s","/","*","*">> >>,
  << <<"a","+","b","(","1",")",".","j","s">>, <<"!","*","*","/","k","e","e","p",".","*">> >> }

\* the paths shouldIgnore is asked about
IgnorePaths == {
  <<"e","r","r","o","r",".","l","o","g">>, <<"i","m","p","o","r","t","a","n","t",".","l","o","g">>, <<"l","o","g","s","/","e","r","r","o","r",".","l","o","g">>, <<"l","o","g","s","\\","i","m","p","o","r","t","a","n","t",".","l","o","g">>,
  <<"n","o","d","e","_","m","o","d","u","l","e","s","/","p","k","g","/","i","n","d","e","x",".","j","s">>, <<"s","r","c","/","n","o","d","e","_","m","o","d","u","l","e","s","_","b","a","c","k","u","p","/","i","n","d","e","x",".","j","s">>,
  <<"d","o","c","s","/","r","e","a","d","m","e",".","m","d">>, <<"d","o","c","s","/","d","e","e","p","/","r","e","a","d","m","e",".","m","d">>, <<"/","d","o","c","s">>,
  <<"r","o","o","t","-","o","n","l","y",".","t","x","t">>, <<"s","r","c","/","r","o","o","t","-","o","n","l","y",".","t","x","t">>,
  <<"b","u","i","l","d">>, <<"s","r","c","/","b","u","i","l","d","/","o","u","t",".","j","s">>, <<"r","e","b","u","i","l","d","/","o","u","t",".","j","s">>,
  <<"r","e","a","d","m","e",".","m","d">>, <<"R","E","A","D","M","E",".","m","d">>, <<"s","r","c","/","a","/","R","E","A","D","M","E",".","m","d">>,
  <<"t","e","s","t",".","j","s">>, <<"t","e","/","t",".","j","s">>, <<"s","r","c","/","t","y","p","e","s","/","a",".","d",".","t","s">>, <<"a",".","d",".","t","s">>,
  <<"a","+","b","(","1",")",".","j","s">>, <<"a","a","b","(","1",")",".","j","s">>, <<"s","r","c","/","k","e","e","p",".","m","e">>, <<>>, <<"n","o","r","m","a","l",".","t","x","t">>, <<"o","t","h","e","r",".","t","x","t">> }

\* the pattern lists and directories shouldIgnoreDirectory is asked about
DirectoryPatternLists ==
  IgnorePatternLists \cup { << <<"t","e","m","p","/">>, <<"b","u","i","l","d","/">>, <<"n","o","d","e","_","m","o","d","u","l","e","s","/","*","*">> >> }

IgnoreDirectories == {
  <<"t","e","m","p">>, <<"t","e","m","p","/">>, <<"b","u","i","l","d">>, <<"n","o","d","e","_","m","o","d","u","l","e","s">>, <<"s","r","c">>, <<"d","o","c","s">>, <<"/","d","o","c","s">>,
  <<"s","r","c","/","t","e","m","p">>, <<"p","r","o","j","e","c","t","/","b","u","i","l","d">>, <<"d","o","c","s","/","d","e","e","p">>, <<"r","o","o","t","-","o","n","l","y",".","t","x","t">>, <<"l","o","g","s","\\","o","l","d",".","l","o","g">>,
  <<"R","E","A","D","M","E",".","m","d">> }

\* the MemoryAwareCache of the model, its keys, values and sizes, and the
\* last reading of the clock
MacMaxSize == 3

MaxNow == 3

MacKeys == {"a", "b"}

MacValues == { <<"v">> }

MacSizes == 0..MacMaxSize

\* the pool of the model: its size, the calls of execute and their data, and
\* the messages and errors its workers emit
PoolSize == 2

MaxJobs == 3

MaxEvents == 2

JobData == {"d1", "d2"}

-----------------------------------------------------------------------------
(* Operations.                                                             *)

NoCall ==
  [st |-> 0, file |-> NULL, lit |-> NULL, res |-> NoConversion, again |-> FALSE]

NoRewrite ==
  [pc |-> "idle", content |-> << >>, imports |-> << >>, conversions |-> << >>,
   sorted |-> << >>, i |-> 0, modifiedContent |-> << >>]

NoBatch ==
  [pc |-> "idle", files |-> << >>, state |-> 0, opts |-> ProcessingOptions(FALSE, 0),
   concurrency |-> 0, batchSize |-> 0, i |-> 0, j |-> 0, tasks |-> << >>,
   chunked |-> [results |-> << >>, processed |-> 0, failed |-> 0],
   results |-> << >>, stats |-> BatchStats(0, 0, 0)]

Init ==
  /\ op = "init"
  /\ args = NoArgs
  /\ ret = NoArgs
  /\ resolveCache = << >>
  /\ answered = "none"
  /\ remembered = NoCall
  /\ rw = NoRewrite
  /\ scan = [lastIndex |-> NoScan, atCall |-> NoScan]
  /\ lru = NewLRUCache(CacheCapacity)
  /\ lruRef = [entries |-> << >>, answer |-> Undefined]
  /\ disk = [files |-> InitialFiles, wrote |-> << >>, read |-> << >>,
             rewritten |-> << >>]
  /\ batch = NoBatch
  /\ mac = NewMemoryAwareCache(MacMaxSize, 0)
  /\ pool = NewWorkerPool(PoolSize)

\* findBestMatch(state, absolutePath)
FindBestMatchCall ==
  \E s \in 1..Len(ResolverStates), p \in MatchPaths :
    /\ op' = "findBestMatch"
    /\ args' = <<s, p>>
    /\ ret' = FindBestMatch(ResolverStates[s], p)
    /\ UNCHANGED <<resolveCache, answered, remembered, rw, scan, lru, lruRef, disk, batch, mac, pool>>

\* resolveImport(state, importPath, fromFile), with the module-level cache
ResolveImport(s, importPath, fromFile) ==
  \E call \in {ResolveImportOn(resolveCache, ResolverStates[s], importPath, fromFile)} :
     /\ op' = "resolveImport"
     /\ args' = <<s, importPath, fromFile>>
     /\ ret' = call.result
     /\ resolveCache' = call.cache
     /\ answered' = call.answered

\* a resolveImport call of a process that builds several resolver states
ResolveImportCall ==
  \E s \in ResolveStates, importPath \in ImportLiterals, fromFile \in SourceFiles :
    LET same == remembered.file = fromFile /\ remembered.lit = importPath
    IN /\ ResolveImport(s, importPath, fromFile)
       \* history: one earlier call is kept until a call under another
       \* configuration is made; again marks a repetition of the call kept
       /\ remembered' \in
            IF remembered.st = s
            THEN {[remembered EXCEPT !.again = same],
                  [st |-> s, file |-> fromFile, lit |-> importPath, res |-> ret',
                   again |-> FALSE]}
            ELSE {NoCall,
                  [st |-> s, file |-> fromFile, lit |-> importPath, res |-> ret',
                   again |-> FALSE]}
       /\ UNCHANGED <<rw, scan, lru, lruRef, disk, batch, mac, pool>>

\* a resolveImport call of one conversion run: every call of the run is
\* given the resolver state the run has built
ResolveImportOfRun ==
  \E s \in ResolveStates, importPath \in RunLiterals, fromFile \in RunFiles :
    /\ op = "resolveImport" => args[1] = s
    /\ ResolveImport(s, importPath, fromFile)
    /\ UNCHANGED <<remembered, rw, scan, lru, lruRef, disk, batch, mac, pool>>

\* replaceImports(content, imports, conversions): from the call to the loop,
\* or to the early return when conversionMap is empty
ReplaceImportsBegin ==
  /\ rw.pc = "idle"
  /\ \E content \in RewriteContents :
     \E imports \in SeqsUpTo(CandidateMatches(content), MaxMatches),
        conversions \in SeqsUpTo(CandidateConversions, MaxConversions) :
       LET call == [NoRewrite EXCEPT !.content = content, !.imports = imports,
                                     !.conversions = conversions,
                                     !.modifiedContent = content]
       IN IF ConversionMapEmpty(conversions)
          THEN /\ rw' = [call EXCEPT !.pc = "done"]
               /\ op' = "replaceImports"
               /\ ret' = content
          ELSE /\ rw' = [call EXCEPT !.pc = "loop", !.sorted = SortImports(imports),
                                     !.i = 1]
               /\ op' = "replaceImports:loop"
               /\ ret' = NoArgs
  /\ args' = NoArgs
  /\ UNCHANGED <<resolveCache, answered, remembered, scan, lru, lruRef, disk, batch, mac, pool>>

\* one iteration of for (const importMatch of sortedImports)
ReplaceImportsStep ==
  /\ rw.pc = "loop"
  /\ rw.i <= Len(rw.sorted)
  /\ rw' = [rw EXCEPT !.modifiedContent =
                         ReplaceOne(rw.modifiedContent, rw.sorted[rw.i], rw.conversions),
                      !.i = rw.i + 1]
  /\ UNCHANGED <<op, args, ret, resolveCache, answered, remembered, scan, lru, lruRef, disk, batch, mac, pool>>

\* return modifiedContent
ReplaceImportsReturn ==
  /\ rw.pc = "loop"
  /\ rw.i > Len(rw.sorted)
  /\ rw' = [rw EXCEPT !.pc = "done"]
  /\ op' = "replaceImports"
  /\ ret' = rw.modifiedContent
  /\ UNCHANGED <<args, resolveCache, answered, remembered, scan, lru, lruRef, disk, batch, mac, pool>>

\* findImports(content, options)
FindImportsCall ==
  \E content \in LocatorContents, opts \in LocatorOptions :
    /\ op' = "findImports"
    /\ args' = <<content, opts>>
    /\ ret' = FindImports(content, opts, scan.lastIndex)
    /\ scan' = [lastIndex |-> ScanOfFindImports(content, opts, scan.lastIndex).left,
                atCall |-> scan.lastIndex]
    /\ UNCHANGED <<resolveCache, answered, remembered, rw, lru, lruRef, disk, batch, mac, pool>>

\* findImports(content, options) among other users of the patterns
FindImportsAgainCall ==
  \E content \in ScanContents, opts \in LocatorOptions :
    /\ op' = "findImports"
    /\ args' = <<content, opts>>
    /\ ret' = FindImports(content, opts, scan.lastIndex)
    /\ scan' = [lastIndex |-> ScanOfFindImports(content, opts, scan.lastIndex).left,
                atCall |-> scan.lastIndex]
    /\ UNCHANGED <<resolveCache, answered, remembered, rw, lru, lruRef, disk, batch, mac, pool>>

\* parseES6Imports(content), parseCommonJSImports(content) or
\* parseDynamicImports(content), called on its own
ParsePassCall ==
  \E content \in ScanContents, pass \in {"es6", "commonjs", "dynamic"} :
    /\ op' = "parse"
    /\ args' = <<content, pass>>
    /\ ret' = CASE pass = "es6" -> ParseES6Imports(content, scan.lastIndex)
                [] pass = "commonjs" -> ParseCommonJSImports(content, scan.lastIndex)
                [] pass = "dynamic" -> ParseDynamicImports(content, scan.lastIndex)
    /\ scan' = [lastIndex |->
                  CASE pass = "es6" -> AfterParseES6Imports(scan.lastIndex)
                    [] pass = "commonjs" -> AfterParseCommonJSImports(scan.lastIndex)
                    [] pass = "dynamic" -> AfterParseDynamicImports(scan.lastIndex),
                atCall |-> scan.lastIndex]
    /\ UNCHANGED <<resolveCache, answered, remembered, rw, lru, lruRef, disk, batch, mac, pool>>

\* IMPORT_PATTERNS[name].exec(content) by an importer of the exported
\* patterns: one exec, which leaves the pattern at the end of its match
PatternExecCall ==
  \E content \in ScanContents, name \in PatternNames :
    LET e == Exec(IMPORT_PATTERNS[name], content, scan.lastIndex[name])
    IN /\ op' = "exec"
       /\ args' = <<content, name>>
       /\ ret' = IF e.found THEN <<e.index, e.group>> ELSE NoArgs
       /\ scan' = [lastIndex |-> [scan.lastIndex EXCEPT ![name] = e.lastIndex],
                   atCall |-> scan.lastIndex]
       /\ UNCHANGED <<resolveCache, answered, remembered, rw, lru, lruRef, disk, batch, mac, pool>>

\* compilePatterns(patterns)
CompilePatternsCall ==
  \E patterns \in IgnorePatternLists :
    /\ op' = "compilePatterns"
    /\ args' = <<patterns>>
    /\ ret' = CompilePatterns(patterns)
    /\ UNCHANGED <<resolveCache, answered, remembered, rw, scan, lru, lruRef, disk, batch, mac, pool>>

\* shouldIgnore(state, filePath) on a state compiled from a pattern list
ShouldIgnoreCall ==
  \E patterns \in IgnorePatternLists, filePath \in IgnorePaths :
    LET state == IgnoreState(patterns)
    IN /\ op' = "shouldIgnore"
       /\ args' = <<state, filePath>>
       /\ ret' = ShouldIgnore(state, filePath)
       /\ UNCHANGED <<resolveCache, answered, remembered, rw, scan, lru, lruRef, disk, batch, mac, pool>>

\* parseConfig(configPath) on a file system
ParseConfigCall ==
  \E fs \in FileSystems, configPath \in ConfigPaths :
    /\ op' = "parseConfig"
    /\ args' = <<configPath, fs>>
    /\ ret' = ParseConfig(fs, configPath, CallStack(MaxCallStack, FALSE))
    /\ UNCHANGED <<resolveCache, answered, remembered, rw, scan, lru, lruRef, disk, batch, mac, pool>>

\* parseConfig on every file system
SpecConfig == Init /\ [][ParseConfigCall]_vars

\* a least-recently-used map, its entries from the least to the most
\* recently used: what get and set answer and the entries they leave
RefIndex(entries, key) ==
  LET at == {i \in 1..Len(entries) : entries[i].key = key}
  IN IF at = {} THEN 0 ELSE CHOOSE i \in at : TRUE

RefWithout(entries, key) == SelectSeq(entries, LAMBDA e : e.key # key)

RefGet(entries, key) ==
  IF RefIndex(entries, key) = 0
  THEN [entries |-> entries, answer |-> Undefined]
  ELSE [entries |-> Append(RefWithout(entries, key), entries[RefIndex(entries, key)]),
        answer |-> entries[RefIndex(entries, key)].value]

\* answer: the key that had to go
RefSet(entries, key, value, capacity) ==
  IF RefIndex(entries, key) # 0
  THEN [entries |-> Append(RefWithout(entries, key), [key |-> key, value |-> value]),
        answer |-> Undefined]
  ELSE IF Len(entries) >= capacity /\ Len(entries) > 0
  THEN [entries |-> Append(Tail(entries), [key |-> key, value |-> value]),
        answer |-> entries[1].key]
  ELSE [entries |-> Append(entries, [key |-> key, value |-> value]),
        answer |-> Undefined]

\* new LRUCache(capacity)
NewLRUCacheCall ==
  \E capacity \in 1..MaxCapacity :
    /\ op' = "new LRUCache"
    /\ args' = <<capacity>>
    /\ ret' = NoArgs
    /\ lru' = NewLRUCache(capacity)
    /\ lruRef' = [entries |-> << >>, answer |-> Undefined]
    /\ UNCHANGED <<resolveCache, answered, remembered, rw, scan, disk, batch, mac, pool>>

\* cache.get(key)
LRUGetCall ==
  \E key \in CacheKeys :
    /\ op' = "get"
    /\ args' = <<key>>
    /\ ret' = LRUGet(lru, key).value
    /\ lru' = LRUGet(lru, key).cache
    /\ lruRef' = RefGet(lruRef.entries, key)
    /\ UNCHANGED <<resolveCache, answered, remembered, rw, scan, disk, batch, mac, pool>>

\* cache.set(key, value)
LRUSetCall ==
  \E key \in CacheKeys, value \in CacheValues :
    /\ op' = "set"
    /\ args' = <<key, value>>
    /\ ret' = NoArgs
    /\ lru' = LRUSet(lru, key, value)
    /\ lruRef' = RefSet(lruRef.entries, key, value, lru.capacity)
    /\ UNCHANGED <<resolveCache, answered, remembered, rw, scan, disk, batch, mac, pool>>

\* cache.size()
LRUSizeCall ==
  /\ op' = "size"
  /\ args' = NoArgs
  /\ ret' = LRUSize(lru)
  /\ lruRef' = [lruRef EXCEPT !.answer = Undefined]
  /\ UNCHANGED <<resolveCache, answered, remembered, rw, scan, lru, disk, batch, mac, pool>>

\* cache.clear()
LRUClearCall ==
  /\ op' = "clear"
  /\ args' = NoArgs
  /\ ret' = NoArgs
  /\ lru' = LRUClear(lru)
  /\ lruRef' = [entries |-> << >>, answer |-> Undefined]
  /\ UNCHANGED <<resolveCache, answered, remembered, rw, scan, disk, batch, mac, pool>>

\* any sequence of calls on an LRUCache of any capacity
SpecCache ==
  Init /\ [][NewLRUCacheCall \/ LRUGetCall \/ LRUSetCall \/ LRUSizeCall
              \/ LRUClearCall]_vars

\* an editor or another program saves, protects or removes a file
EditFile ==
  \E path \in ProcessPaths :
    /\ \/ \E content \in FileContents, writable \in BOOLEAN :
            disk' = [files |-> [q \in DOMAIN disk.files \cup {path} |->
                                  IF q = path THEN File(content, writable)
                                  ELSE disk.files[q]],
                     wrote |-> << >>, read |-> << >>, rewritten |-> << >>]
       \/ disk' = [files |-> [q \in DOMAIN disk.files \ {path} |-> disk.files[q]],
                   wrote |-> << >>, read |-> << >>, rewritten |-> << >>]
    /\ op' = "edit"
    /\ args' = <<path>>
    /\ ret' = NoArgs
    /\ UNCHANGED <<resolveCache, answered, remembered, rw, scan, lru, lruRef,
                   batch, mac, pool>>

\* processFile(filePath, resolverState, options); args keeps the file
\* system the call found
ProcessFileCall ==
  \E filePath \in ProcessPaths \cup OtherPaths, s \in ProcessStates,
     opts \in ProcessOptions :
    \E call \in {ProcessFile(disk.files, resolveCache, answered, scan.lastIndex,
                              filePath, ResolverStates[s], opts)} :
       /\ op' = "processFile"
       /\ args' = <<filePath, s, opts, disk.files>>
       /\ ret' = call.result
       /\ disk' = [files |-> call.files, wrote |-> call.wrote, read |-> call.read,
                   rewritten |-> call.rewritten]
       /\ resolveCache' = call.cache
       /\ answered' = call.answered
       /\ scan' = [lastIndex |-> call.lastIndex, atCall |-> scan.lastIndex]
       /\ UNCHANGED <<remembered, rw, lru, lruRef, batch, mac, pool>>

\* processFile on the files of a project that is being edited
SpecProcess == Init /\ [][EditFile \/ ProcessFileCall]_vars

\* processBatch(files, resolverState, options): from the call to the loop
\* over the batches; a process makes one such call
ProcessBatchCall ==
  /\ batch.pc = "idle"
  /\ \E n \in 0..MaxFiles, s \in ProcessStates, dryRun \in BOOLEAN,
        concurrency \in BatchSizes, batchSize \in BatchSizes :
     \E files \in [1..n -> BatchPaths] :
       /\ batch' = [NoBatch EXCEPT !.pc = "batch", !.files = files, !.state = s,
                      !.opts = ProcessingOptions(dryRun, DefaultMaxFileSize),
                      !.concurrency = concurrency, !.batchSize = batchSize,
                      !.stats = BatchStats(Len(files), 0, 0)]
       /\ op' = "processBatch:call"
       /\ args' = <<files, s, dryRun, concurrency, batchSize>>
  /\ ret' = NoArgs
  /\ disk' = [disk EXCEPT !.wrote = << >>, !.read = << >>, !.rewritten = << >>]
  /\ UNCHANGED <<resolveCache, answered, remembered, rw, scan, lru, lruRef, mac, pool>>

\* for (let i = 0; i < files.length; i += batchSize): the memory test, and
\* either the switch to streaming or the first chunk of the batch
BatchBegin ==
  /\ batch.pc = "batch"
  /\ batch.i < Len(batch.files)
  /\ \E overLimit \in BOOLEAN :
       batch' = IF overLimit
                THEN [batch EXCEPT !.pc = "stream",
                                   !.tasks = FilesFrom(batch.files, batch.i), !.j = 0,
                                   !.chunked.results = << >>]
                ELSE [batch EXCEPT !.pc = "chunk", !.j = 0,
                        !.chunked = [results |-> << >>, processed |-> 0, failed |-> 0],
                        !.tasks = ChunkTasks(Slice(batch.files, batch.i,
                                                   batch.i + batch.batchSize),
                                             0, batch.concurrency)]
  /\ UNCHANGED <<op, args, ret, resolveCache, answered, remembered, rw, scan, lru,
                 lruRef, disk, mac, pool>>

\* a processFile call of the chunk goes on to its readFile
TaskRead ==
  /\ batch.pc = "chunk"
  /\ \E n \in 1..Len(batch.tasks) :
       /\ batch.tasks[n].pc = "start"
       /\ LET read == ProcessFileRead(disk.files, batch.tasks[n].filePath, batch.opts)
          IN batch' = [batch EXCEPT !.tasks[n] =
                         Task(batch.tasks[n].filePath,
                              IF read.returned THEN "done" ELSE "read",
                              read.content, read.result)]
  /\ UNCHANGED <<op, args, ret, resolveCache, answered, remembered, rw, scan, lru,
                 lruRef, disk, mac, pool>>

\* a processFile call of the chunk goes on from the content it read to its
\* return
TaskFinish ==
  /\ batch.pc = "chunk"
  /\ \E n \in 1..Len(batch.tasks) :
       /\ batch.tasks[n].pc = "read"
       /\ \E call \in {ProcessFileRest(disk.files, resolveCache, answered,
                                        scan.lastIndex, batch.tasks[n].content,
                                        batch.tasks[n].filePath,
                                        ResolverStates[batch.state], batch.opts)} :
             /\ batch' = [batch EXCEPT !.tasks[n].pc = "done",
                                       !.tasks[n].result = call.result]
             /\ disk' = [files |-> call.files, wrote |-> disk.wrote \o call.wrote,
                         read |-> call.read, rewritten |-> call.rewritten]
             /\ resolveCache' = call.cache
             /\ answered' = call.answered
             /\ scan' = [lastIndex |-> call.lastIndex, atCall |-> scan.lastIndex]
  /\ UNCHANGED <<op, args, ret, remembered, rw, lru, lruRef, mac, pool>>

\* Promise.allSettled(promises) resolves: the results of the chunk are
\* pushed, and the next chunk or the next batch begins
ChunkSettled ==
  /\ batch.pc = "chunk"
  /\ \A n \in 1..Len(batch.tasks) : batch.tasks[n].pc = "done"
  /\ LET batchFiles == Slice(batch.files, batch.i, batch.i + batch.batchSize)
         chunked == CollectChunk(batch.tasks, 1, batch.chunked)
         j == batch.j + batch.concurrency
     IN batch' =
          IF j < Len(batchFiles)
          THEN [batch EXCEPT !.j = j, !.chunked = chunked,
                             !.tasks = ChunkTasks(batchFiles, j, batch.concurrency)]
          ELSE [batch EXCEPT !.pc = "batch", !.i = batch.i + batch.batchSize,
                  !.tasks = << >>, !.chunked = chunked,
                  !.results = batch.results \o chunked.results,
                  !.stats = BatchStats(batch.stats.totalFiles,
                              batch.stats.processedFiles + chunked.processed,
                              batch.stats.failedFiles + chunked.failed)]
  /\ UNCHANGED <<op, args, ret, resolveCache, answered, remembered, rw, scan, lru,
                 lruRef, disk, mac, pool>>

\* one iteration of for (const filePath of files) in processWithStreaming
StreamStep ==
  /\ batch.pc = "stream"
  /\ batch.j < Len(batch.tasks)
  /\ \E call \in {StreamFile(disk.files, resolveCache, answered, scan.lastIndex,
                              batch.tasks[batch.j + 1], ResolverStates[batch.state],
                              batch.opts)} :
        /\ batch' = [batch EXCEPT !.j = batch.j + 1,
                       !.chunked.results = Append(batch.chunked.results, call.result)]
        /\ disk' = [files |-> call.files, wrote |-> disk.wrote \o call.wrote,
                    read |-> call.read, rewritten |-> call.rewritten]
        /\ resolveCache' = call.cache
        /\ answered' = call.answered
        /\ scan' = [lastIndex |-> call.lastIndex, atCall |-> scan.lastIndex]
  /\ UNCHANGED <<op, args, ret, remembered, rw, lru, lruRef, mac, pool>>

\* processWithStreaming returns: its results are pushed and the loop over
\* the batches is left
StreamReturn ==
  /\ batch.pc = "stream"
  /\ batch.j >= Len(batch.tasks)
  /\ batch' = [batch EXCEPT !.pc = "return", !.tasks = << >>,
                 !.results = batch.results \o batch.chunked.results,
                 !.stats = BatchStats(batch.stats.totalFiles,
                             batch.stats.processedFiles + Len(batch.chunked.results),
                             batch.stats.failedFiles)]
  /\ UNCHANGED <<op, args, ret, resolveCache, answered, remembered, rw, scan, lru,
                 lruRef, disk, mac, pool>>

\* return { results, stats }
ProcessBatchReturn ==
  /\ \/ batch.pc = "batch" /\ batch.i >= Len(batch.files)
     \/ batch.pc = "return"
  /\ batch' = [batch EXCEPT !.pc = "done"]
  /\ op' = "processBatch"
  /\ ret' = [results |-> batch.results, stats |-> batch.stats]
  /\ UNCHANGED <<args, resolveCache, answered, remembered, rw, scan, lru, lruRef,
                 disk, mac, pool>>

\* the processBatch call of a process
SpecBatch ==
  Init /\ [][ProcessBatchCall \/ BatchBegin \/ TaskRead \/ TaskFinish \/ ChunkSettled
              \/ StreamStep \/ StreamReturn \/ ProcessBatchReturn]_vars

\* createPathResolver(config) on the configuration parseConfig builds from
\* a paths object
CreatePathResolverCall ==
  \E entries \in ResolverPaths :
    /\ op' = "createPathResolver"
    /\ args' = <<BuildPathMappingLookup(entries, <<".">>, <<"/","p","r","o","j","e","c","t">>)>>
    /\ ret' = CreatePathResolver(args'[1])
    /\ UNCHANGED <<resolveCache, answered, remembered, rw, scan, lru, lruRef, disk,
                   batch, mac, pool>>

\* createPathResolver on every configuration
SpecResolver == Init /\ [][CreatePathResolverCall]_vars

\* batchReplaceImports(content, replacements); a complete scan leaves every
\* pattern at lastIndex 0, so a later call starts as the first one does
BatchReplaceImportsCall ==
  \E content \in BatchContents, replacements \in ReplacementMaps :
    /\ op = "init"
    /\ op' = "batchReplaceImports"
    /\ args' = <<content, replacements>>
    /\ ret' = BatchReplaceImports(content, replacements, scan.lastIndex)
    /\ scan' = [lastIndex |-> IF Len(replacements) = 0 THEN scan.lastIndex
                              ELSE ScanOfFindImports(content, DEFAULT_OPTIONS,
                                                     scan.lastIndex).left,
                atCall |-> scan.lastIndex]
    /\ UNCHANGED <<resolveCache, answered, remembered, rw, lru, lruRef, disk, batch,
                   mac, pool>>

\* batchReplaceImports on every content and Map of replacements
SpecBatchReplace == Init /\ [][BatchReplaceImportsCall]_vars

\* findImports(content, options) while passes throw. A pass that threw
\* twice leaves its patterns where the throwing exec found them.
FindImportsThrowingCall ==
  \E content \in ThrowingContents, opts \in LocatorOptions, throws \in PassThrows,
     atEnd \in BOOLEAN :
    LET left == IF atEnd THEN Len(content) ELSE 0 IN
    /\ op = "init"
    /\ op' = "findImportsThrowing"
    /\ args' = <<content, opts, throws>>
    /\ ret' = FindImportsThrowing(content, opts, scan.lastIndex, throws)
    /\ scan' = [lastIndex |->
                  [name \in PatternNames |->
                     LET type == CASE name = "COMMONJS_REQUIRE" -> "commonjs"
                                   [] name = "DYNAMIC_IMPORT" -> "dynamic"
                                   [] OTHER -> "es6"
                         ran == CASE type = "es6" -> opts.includeES6
                                  [] type = "commonjs" -> opts.includeCommonJS
                                  [] type = "dynamic" -> opts.includeDynamic
                     IN IF content = << >> \/ ~ran THEN scan.lastIndex[name]
                        ELSE IF throws[type] = ParseAttempts THEN left ELSE 0],
                atCall |-> scan.lastIndex]
    /\ UNCHANGED <<resolveCache, answered, remembered, rw, lru, lruRef, disk, batch,
                   mac, pool>>

\* findImports with throwing passes on every content
SpecThrowing == Init /\ [][FindImportsThrowingCall]_vars

\* shouldIgnoreDirectory(state, dirPath) on a state compiled from a pattern
\* list
ShouldIgnoreDirectoryCall ==
  \E patterns \in DirectoryPatternLists, dirPath \in IgnoreDirectories :
    LET state == IgnoreState(patterns)
    IN /\ op' = "shouldIgnoreDirectory"
       /\ args' = <<state, dirPath>>
       /\ ret' = ShouldIgnoreDirectory(state, dirPath)
       /\ UNCHANGED <<resolveCache, answered, remembered, rw, scan, lru, lruRef, disk,
                      batch, mac, pool>>

\* shouldIgnoreDirectory on every pattern list and directory
SpecIgnoreDirectory == Init /\ [][ShouldIgnoreDirectoryCall]_vars

\* cache.set(key, value, size)
MacSetCall ==
  \E key \in MacKeys, value \in MacValues, size \in MacSizes :
    /\ ~MacSet(mac, key, value, size, MaxNow).spinning
    /\ mac' = MacSet(mac, key, value, size, MaxNow)
    /\ op' = "cache.set"
    /\ args' = <<key, value, size>>
    /\ ret' = NoArgs
    /\ UNCHANGED <<resolveCache, answered, remembered, rw, scan, lru, lruRef, disk,
                   batch, pool>>

\* cache.get(key)
MacGetCall ==
  \E key \in MacKeys :
    /\ mac' = MacGet(mac, key)
    /\ op' = "cache.get"
    /\ args' = <<key>>
    /\ ret' = IF MacIndex(mac, key) = 0 THEN Undefined
              ELSE mac.cache[MacIndex(mac, key)].value
    /\ UNCHANGED <<resolveCache, answered, remembered, rw, scan, lru, lruRef, disk,
                   batch, pool>>

\* cache.delete(key)
MacDeleteCall ==
  \E key \in MacKeys :
    /\ mac' = MacDelete(mac, key)
    /\ op' = "cache.delete"
    /\ args' = <<key>>
    /\ ret' = (MacIndex(mac, key) # 0)
    /\ UNCHANGED <<resolveCache, answered, remembered, rw, scan, lru, lruRef, disk,
                   batch, pool>>

\* cache.clear()
MacClearCall ==
  /\ mac' = MacClear(mac)
  /\ op' = "cache.clear"
  /\ args' = NoArgs
  /\ ret' = NoArgs
  /\ UNCHANGED <<resolveCache, answered, remembered, rw, scan, lru, lruRef, disk,
                 batch, pool>>

\* a millisecond passes between two calls
MacTick ==
  /\ mac.now < MaxNow
  /\ mac' = [mac EXCEPT !.now = mac.now + 1]
  /\ UNCHANGED <<op, args, ret, resolveCache, answered, remembered, rw, scan, lru,
                 lruRef, disk, batch, pool>>

\* a MemoryAwareCache under every sequence of calls
SpecMemory ==
  Init /\ [][MacSetCall \/ MacGetCall \/ MacDeleteCall \/ MacClearCall \/ MacTick]_vars

\* parseConfig(configPath) on a file system whose configurations extend one
\* another, with the files it loads
ParseExtendingConfigCall ==
  \E fs \in ExtendingFileSystems,
     configPath \in { <<"/","p","r","o","j","e","c","t","/","t","s","c","o","n","f","i","g",".","j","s","o","n">>, <<"/","p","r","o","j","e","c","t","/","b","a","s","e",".","j","s","o","n">> },
     inLoad \in BOOLEAN :
    /\ op' = "parseConfig.extends"
    /\ args' = <<configPath, fs, CallStack(MaxCallStack, inLoad)>>
    /\ ret' = [result |-> ParseConfig(fs, configPath, CallStack(MaxCallStack, inLoad)),
               loads |-> ConfigLoads(fs, configPath, CallStack(MaxCallStack, inLoad))]
    /\ UNCHANGED <<resolveCache, answered, remembered, rw, scan, lru, lruRef, disk,
                   batch, mac, pool>>

\* parseConfig on configurations that extend one another
SpecExtends == Init /\ [][ParseExtendingConfigCall]_vars

\* pool.execute(data)
PoolExecute ==
  \E data \in JobData :
    /\ Len(pool.jobs) < MaxJobs
    /\ pool' = Execute(pool, data)
    /\ op' = "pool.execute"
    /\ args' = <<data>>
    /\ UNCHANGED <<ret, resolveCache, answered, remembered, rw, scan, lru, lruRef,
                   disk, batch, mac>>

\* worker w emits 'message'
WorkerMessage(w) ==
  /\ pool.pc = "running"
  /\ pool.events < MaxEvents
  /\ pool' = OnWorkerEvent(pool, w, "resolve")
  /\ UNCHANGED <<op, args, ret, resolveCache, answered, remembered, rw, scan, lru,
                 lruRef, disk, batch, mac>>

\* worker w emits 'error'
WorkerError(w) ==
  /\ pool.pc = "running"
  /\ pool.events < MaxEvents
  /\ pool' = OnWorkerEvent(pool, w, "reject")
  /\ UNCHANGED <<op, args, ret, resolveCache, answered, remembered, rw, scan, lru,
                 lruRef, disk, batch, mac>>

\* pool.terminate() up to its await: every worker is told to stop
PoolTerminate ==
  /\ pool.pc = "running"
  /\ pool' = [pool EXCEPT !.pc = "terminating"]
  /\ op' = "pool.terminate"
  /\ args' = NoArgs
  /\ UNCHANGED <<ret, resolveCache, answered, remembered, rw, scan, lru, lruRef,
                 disk, batch, mac>>

\* pool.terminate() after its await
PoolTerminated ==
  /\ pool.pc = "terminating"
  /\ pool' = [pool EXCEPT !.workers = << >>, !.queue = << >>, !.pc = "terminated"]
  /\ UNCHANGED <<op, args, ret, resolveCache, answered, remembered, rw, scan, lru,
                 lruRef, disk, batch, mac>>

\* a worker that was posted a message answers it
WorkerAnswers(w) ==
  /\ w \in 1..Len(pool.workers)
  /\ pool.workers[w].inbox # << >>
  /\ WorkerMessage(w) \/ WorkerError(w)

\* a WorkerPool under every interleaving of execute calls and worker events;
\* the event loop runs the rest of terminate, and a worker answers what it
\* is posted
SpecPool ==
  /\ Init
  /\ [][\/ PoolExecute
        \/ \E w \in 1..PoolSize : WorkerMessage(w)
        \/ \E w \in 1..PoolSize : WorkerError(w)
        \/ PoolTerminate
        \/ PoolTerminated]_vars
  /\ WF_vars(PoolTerminated)
  /\ \A w \in 1..PoolSize : WF_vars(WorkerAnswers(w))

\* findBestMatch on every configuration and path
SpecMatch == Init /\ [][FindBestMatchCall]_vars

\* any sequence of resolveImport calls in one process
SpecResolve == Init /\ [][ResolveImportCall]_vars

\* the resolveImport calls of one conversion run, in any order
SpecRun == Init /\ [][ResolveImportOfRun]_vars

\* replaceImports on every content, imports list and conversions list
SpecRewrite ==
  Init /\ [][ReplaceImportsBegin \/ ReplaceImportsStep \/ ReplaceImportsReturn]_vars

\* findImports on every content
SpecImports == Init /\ [][FindImportsCall]_vars

\* findImports and its passes among single execs of the exported patterns
SpecScan == Init /\ [][FindImportsAgainCall \/ ParsePassCall \/ PatternExecCall]_vars

\* compilePatterns and shouldIgnore on every pattern list and path
SpecIgnore == Init /\ [][CompilePatternsCall \/ ShouldIgnoreCall]_vars

-----------------------------------------------------------------------------
(* Claims.                                                                 *)

\* the indexes of the mappings of ms whose normalized base is a prefix of np
Qualifying(ms, np) ==
  {i \in 1..Len(ms) : StartsWith(np, NormalizedBase(ms[i]))}

\* C1: findBestMatch(state, p) returns a mapping whose normalized resolved
\* base is a string prefix of normalize(p) and at least as long as that of
\* every other mapping whose base is a prefix; among the longest ones it is
\* the first in iteration order; it returns null exactly when no mapping's
\* base is a prefix.  With @ -> /p/src and @components -> /p/src/components,
\* /p/src/components/Button.ts selects @components.
C1_FindBestMatchLongestPrefix ==
  op = "findBestMatch" =>
    LET ms == AllMappings(ResolverStates[args[1]])
        np == Normalize(args[2])
        Q == Qualifying(ms, np)
    IN /\ (ret = NoMatch) <=> (Q = {})
       /\ Q # {} =>
            \E i \in Q :
              /\ ret = ms[i]
              /\ \A j \in Q :
                    /\ Len(NormalizedBase(ms[j])) <= Len(NormalizedBase(ms[i]))
                    /\ Len(NormalizedBase(ms[j])) = Len(NormalizedBase(ms[i])) => i <= j
       /\ (args = <<5, <<"/","p","/","s","r","c","/","c","o","m","p","o","n","e","n","t","s","/","B","u","t","t","o","n",".","t","s">>>>) => ret.alias = <<"@","c","o","m","p","o","n","e","n","t","s","/","*">>

\* C1 witness: two mappings of different length qualify and the longer,
\* later one was returned
C1_Witness ==
  /\ op = "findBestMatch"
  /\ args = <<5, <<"/","p","/","s","r","c","/","c","o","m","p","o","n","e","n","t","s","/","B","u","t","t","o","n",".","t","s">>>>
  /\ Cardinality(Qualifying(AllMappings(ProjectP), Normalize(args[2]))) = 2
  /\ ret.alias = <<"@","c","o","m","p","o","n","e","n","t","s","/","*">>

\* the result of resolveImport(state, literal, file) on an empty cache
ResolveOnEmptyCache(state, importPath, fromFile) ==
  IF ~IsRelative(importPath)
  THEN Conversion(importPath, NULL, ReasonNotRelative)
  ELSE ResolveUncached(state, importPath, fromFile).result

\* C2: for a relative literal L and a non-empty source file F, with
\* P = resolve(dirname(F), L) and M = findBestMatch(state, P) non-null,
\* resolveImport returns originalImport = L and convertedImport = A when P is
\* M's resolved base and A/R otherwise (A: M's alias without its trailing
\* "/*", R: P without M's base and one leading "/"); the reason names M's
\* alias.
C2_ConvertedImportFollowsBestMatch ==
  (op = "resolveImport" /\ IsRelative(args[2]) /\ args[3] # << >>) =>
    LET L == args[2]
        F == args[3]
        P == Resolve(Dirname(F), L)
        M == FindBestMatch(ResolverStates[args[1]], P)
        A == StripWildcard(M.alias)
        base == NormalizedBase(M)
        rest == SliceFrom(P, Len(base))
        R == IF StartsWith(rest, <<"/">>) THEN SliceFrom(rest, 1) ELSE rest
    IN M # NoMatch =>
         /\ ret.originalImport = L
         /\ ret.convertedImport = (IF P = base THEN A ELSE A \o <<"/">> \o R)
         /\ Includes(ret.reason, M.alias)

\* no two matches of the list share a position of the content
NonOverlapping(imports) ==
  \A k, l \in 1..Len(imports) :
    k # l => \/ imports[k].endIndex <= imports[l].startIndex
             \/ imports[l].endIndex <= imports[k].startIndex

\* the converted imports the conversions list holds for a literal
ConvertedTargets(conversions, path) ==
  {conversions[i].convertedImport : i \in
     {j \in 1..Len(conversions) : /\ conversions[j].originalImport = path
                                  /\ conversions[j].convertedImport # NULL}}

\* where the quoted literal stands in a statement, and in which quotes
QuotedAt(stmt, path) ==
  {qi \in QuoteChars \X (0..(Len(stmt) - Len(path) - 2)) :
     SubSeq(stmt, qi[2] + 1, qi[2] + Len(path) + 2) = Quoted(qi[1], path)}

\* the texts the claim allows in place of a match: the statement with its
\* quoted literal replaced inside the same quotes when the literal has a
\* conversion, the statement itself otherwise
RewrittenSpans(m, conversions) ==
  LET targets == ConvertedTargets(conversions, m.importPath)
      at == QuotedAt(m.fullMatch, m.importPath)
  IN IF targets = {} \/ at = {} THEN {m.fullMatch}
     ELSE {SubSeq(m.fullMatch, 1, qi[2]) \o Quoted(qi[1], t)
             \o SubSeq(m.fullMatch, qi[2] + Len(m.importPath) + 3, Len(m.fullMatch)) :
           qi \in at, t \in targets}

\* the matches by ascending position
Ascending(imports) ==
  LET n == Len(imports)
      p == CHOOSE f \in [1..n -> 1..n] :
             \A k, l \in 1..n : k < l => imports[f[k]].startIndex < imports[f[l]].startIndex
  IN [k \in 1..n |-> imports[p[k]]]

\* the content from offset from on, with the matches k.. rewritten and
\* everything between them kept
RECURSIVE Assemble(_, _, _, _, _)
Assemble(content, asc, conversions, k, from) ==
  IF k > Len(asc) THEN {SliceFrom(content, from)}
  ELSE {Slice(content, from, asc[k].startIndex) \o x \o rest :
          x \in RewrittenSpans(asc[k], conversions),
          rest \in Assemble(content, asc, conversions, k + 1, asc[k].endIndex)}

\* C3: for pairwise non-overlapping matches with fullMatch =
\* content[startIndex, endIndex), replaceImports returns the content in which
\* the quoted literal of every match that has a non-null conversion is
\* replaced by the converted import inside the same quote character, and
\* every other character is preserved in place and order.
C3_RewriteChangesOnlyQuotedLiterals ==
  (op = "replaceImports" /\ rw.pc = "done" /\ NonOverlapping(rw.imports)) =>
    ret \in Assemble(rw.content, Ascending(rw.imports), rw.conversions, 1, 0)

\* every match not yet processed still has its text at its offsets
PendingOffsetsValid ==
  \A k \in rw.i..Len(rw.sorted) :
    Slice(rw.modifiedContent, rw.sorted[k].startIndex, rw.sorted[k].endIndex)
      = rw.sorted[k].fullMatch

C5_NoApplicableConversionIsIdentity ==
  (/\ op = "replaceImports"
   /\ rw.pc = "done"
   /\ \A k \in 1..Len(rw.imports) :
        ConvertedTargets(rw.conversions, rw.imports[k].importPath) = {})
  => ret = rw.content

\* C5 witness: a converted entry exists, no match has its literal, the
\* loop ran over the matches and the content came back unchanged
C5_Witness ==
  /\ op = "replaceImports"
  /\ rw.pc = "done"
  /\ rw.i > Len(rw.sorted)
  /\ Len(rw.imports) = 2
  /\ \E i \in 1..Len(rw.conversions) : rw.conversions[i].convertedImport # NULL
  /\ \A k \in 1..Len(rw.imports) :
       ConvertedTargets(rw.conversions, rw.imports[k].importPath) = {}
  /\ ret = rw.content

\* C6: for every supported syntax (named, default, namespace, mixed and
\* side-effect import, require call, dynamic import) the path literal of a
\* statement is an importPath of findImports' output iff it starts with './'
\* or '../', and every ImportMatch of the output has an importPath that
\* starts with './' or '../'.
C6_RelativeLiteralsExactlyCaptured ==
  (op = "findImports" /\ args[2] = DEFAULT_OPTIONS) =>
    /\ \A i \in 1..Len(ret) : IsRelative(ret[i].importPath)
    /\ \A syntax \in ImportSyntaxes, name \in BindingNames, q \in QuoteChars,
          literal \in LocatorLiterals :
         args[1] = Statement(syntax, name, q, literal) =>
           ((\E i \in 1..Len(ret) : ret[i].importPath = literal)
              <=> IsRelative(literal))

\* the path shouldIgnore is said to test: every backslash a '/', and one
\* leading '/' removed
NormalizedPath(filePath) ==
  LET slashed == [k \in 1..Len(filePath) |->
                    IF filePath[k] = "\\" THEN "/" ELSE filePath[k]]
  IN IF Len(slashed) > 0 /\ slashed[1] = "/"
     THEN SubSeq(slashed, 2, Len(slashed)) ELSE slashed

\* C7: shouldIgnore tests every compiled pattern on the normalized path and
\* the last pattern in declaration order that matches decides: the path is
\* ignored iff that pattern exists and is no negation, matchedPattern is its
\* original text, and without a match the path is not ignored.  With
\* ['*.log', '!important.log'], error.log is ignored and important.log is not.
C7_LastMatchingPatternDecides ==
  op = "shouldIgnore" =>
    LET state == args[1]
        matching == {i \in 1..Len(state.patterns) :
                       RegExpTest(state.patterns[i], NormalizedPath(args[2]))}
        last == CHOOSE i \in matching : \A j \in matching : j <= i
    IN /\ matching = {} => ret = IgnoreCheckResult(FALSE, NULL)
       /\ matching # {} =>
            /\ ret.shouldIgnore = ~StartsWith(state.originalPatterns[last], <<"!">>)
            /\ ret.matchedPattern = state.originalPatterns[last]
       /\ state.originalPatterns = << <<"*",".","l","o","g">>, <<"!","i","m","p","o","r","t","a","n","t",".","l","o","g">> >> =>
            /\ args[2] = <<"e","r","r","o","r",".","l","o","g">> => ret.shouldIgnore
            /\ args[2] = <<"i","m","p","o","r","t","a","n","t",".","l","o","g">> => ~ret.shouldIgnore

\* a negation that matches after an ignoring pattern matched, on a path
\* that had to be normalized
C7_Witness ==
  /\ op = "shouldIgnore"
  /\ args[2] = <<"l","o","g","s","\\","i","m","p","o","r","t","a","n","t",".","l","o","g">>
  /\ args[1].originalPatterns = << <<"*",".","l","o","g">>, <<"!","i","m","p","o","r","t","a","n","t",".","l","o","g">> >>
  /\ RegExpTest(args[1].patterns[1], NormalizedPath(args[2]))
  /\ ret = IgnoreCheckResult(FALSE, <<"!","i","m","p","o","r","t","a","n","t",".","l","o","g">>)

\* the reference glob: '**' any characters, '*' any characters but '/', '?'
\* one character but '/', every other character itself
RECURSIVE GlobAccepts(_, _)
GlobAccepts(glob, s) ==
  IF glob = << >> THEN s = << >>
  ELSE IF StartsWith(glob, <<"*","*">>)
  THEN \E k \in 0..Len(s) : GlobAccepts(SliceFrom(glob, 2), SliceFrom(s, k))
  ELSE IF glob[1] = "*"
  THEN \E k \in 0..Len(s) :
         /\ \A j \in 1..k : s[j] # "/"
         /\ GlobAccepts(Tail(glob), SliceFrom(s, k))
  ELSE IF glob[1] = "?"
  THEN Len(s) > 0 /\ s[1] # "/" /\ GlobAccepts(Tail(glob), Tail(s))
  ELSE Len(s) > 0 /\ s[1] = glob[1] /\ GlobAccepts(Tail(glob), Tail(s))

\* a trailing '/': the directory itself or anything under it
GlobAcceptsTree(glob, s) ==
  IF EndsWith(glob, <<"/">>)
  THEN \E k \in 0..Len(s) :
         /\ k = Len(s) \/ s[k + 1] = "/"
         /\ GlobAccepts(SubSeq(glob, 1, Len(glob) - 1), SubSeq(s, 1, k))
  ELSE GlobAccepts(glob, s)

\* a leading '/': from position 0; a '/' elsewhere: a suffix that begins at
\* position 0 or after a '/'; no '/': a whole segment anywhere
ReferenceAccepts(pattern, s) ==
  IF StartsWith(pattern, <<"/">>) THEN GlobAcceptsTree(SliceFrom(pattern, 1), s)
  ELSE IF Includes(pattern, <<"/">>)
  THEN \E k \in 0..Len(s) :
         /\ k = 0 \/ s[k] = "/"
         /\ GlobAcceptsTree(pattern, SliceFrom(s, k))
  ELSE \E k \in 0..Len(s) : \E e \in k..Len(s) :
         /\ k = 0 \/ s[k] = "/"
         /\ e = Len(s) \/ s[e + 1] = "/"
         /\ GlobAccepts(pattern, SubSeq(s, k + 1, e))

\* C8: the predicate compilePatterns builds for a pattern (its leading '!'
\* removed) accepts a normalized path iff the path matches the pattern under
\* the reference glob semantics.  'node_modules/**' accepts
\* node_modules/pkg/index.js and not src/node_modules_backup/index.js,
\* 'docs/*' accepts docs/readme.md and not docs/deep/readme.md,
\* '/root-only.txt' accepts root-only.txt and not src/root-only.txt.
C8_CompiledPatternIsReferenceGlob ==
  op = "compilePatterns" =>
    \A i \in 1..Len(ret), filePath \in IgnorePaths :
      RegExpTest(ret[i], NormalizedPath(filePath))
        <=> ReferenceAccepts(CleanPattern(args[1][i]), NormalizedPath(filePath))

\* C9: the result of resolveImport(state, literal, file) depends only on its
\* three arguments: after any earlier calls, also under another
\* configuration, it is the result the call gives on an empty cache.
C9_ResultDependsOnlyOnArguments ==
  op = "resolveImport" =>
    ret = ResolveOnEmptyCache(ResolverStates[args[1]], args[2], args[3])

\* C10: two resolveImport calls with identical (state, literal, file), with
\* no call under another state in between, return equal results, whether
\* the second is answered from the cache or recomputed after an eviction.
C10_RepeatedCallSameResult ==
  (op = "resolveImport" /\ remembered.again) => ret = remembered.res

\* C11: whenever resolveImport returns for a relative literal, resolveCache
\* holds under the key of (file, literal) an entry equal to the returned
\* result, whether the result is a conversion, "No matching path alias
\* found" or an error.
C11_ReturnedResultIsCached ==
  (op = "resolveImport" /\ IsRelative(args[2])) =>
    /\ CacheHas(resolveCache, CacheKey(args[3], args[2]))
    /\ CacheGet(resolveCache, CacheKey(args[3], args[2])) = ret

\* C12: resolveImport with a relative literal and an empty or whitespace-only
\* source file returns originalImport = the literal, convertedImport = null
\* and a reason that starts with "Error during conversion".
C12_BlankSourceFileGivesErrorResult ==
  (op = "resolveImport" /\ IsRelative(args[2])
     /\ \A i \in DOMAIN args[3] : args[3][i] \in {" ", "\t", "\n", "\r"}) =>
    /\ ret.originalImport = args[2]
    /\ ret.convertedImport = NULL
    /\ StartsWith(ret.reason, <<"E","r","r","o","r"," ","d","u","r","i","n","g"," ","c","o","n","v","e","r","s","i","o","n">>)

\* a whitespace-only source file, answered from the cache
C12_Witness ==
  /\ op = "resolveImport"
  /\ args[2] = <<".","/","c">>
  /\ args[3] = <<" ">>
  /\ answered = "hit"
  /\ ret.reason = ReasonError

\* the converted literal with the alias at its front replaced by the
\* mapping's resolved base directory
ExpandAlias(converted, mapping) ==
  LET A == StripWildcard(mapping.alias)
      base == StripWildcard(mapping.resolvedBase)
  IN IF converted = A THEN Normalize(base)
     ELSE IF StartsWith(converted, A \o <<"/">>)
     THEN Normalize(base \o <<"/">> \o SliceFrom(converted, Len(A) + 1))
     ELSE NULL

\* C13: for every successfully converted import, expanding the converted
\* literal through the matched mapping gives the absolute path of the
\* original literal resolved against the directory of the source file.
C13_ConvertedImportRoundTrips ==
  (op = "resolveImport" /\ ret.convertedImport # NULL) =>
    LET P == Resolve(Dirname(args[3]), args[2])
        M == FindBestMatch(ResolverStates[args[1]], P)
    IN M # NoMatch /\ ExpandAlias(ret.convertedImport, M) = P

\* C16: for one fixed resolver state, the result of resolveImport for a pair
\* (file, literal) is the same under every interleaving of calls for other
\* pairs that share resolveCache, evictions included: it is the result the
\* call gives on an empty cache, and a result taken from the cache was
\* stored for the same literal.
C16_ResultIndependentOfOtherPairs ==
  op = "resolveImport" =>
    /\ ret.originalImport = args[2]
    /\ ret = ResolveOnEmptyCache(ResolverStates[args[1]], args[2], args[3])

\* the matches the passes of a findImports call find, in pass order, with
\* validated paths
PassMatches(content, opts) ==
  ValidMatches(
    (IF opts.includeES6 THEN ParseES6Imports(content, NoScan) ELSE << >>)
    \o (IF opts.includeCommonJS THEN ParseCommonJSImports(content, NoScan) ELSE << >>)
    \o (IF opts.includeDynamic THEN ParseDynamicImports(content, NoScan) ELSE << >>))

\* C14: the list findImports returns is sorted by non-decreasing startIndex
\* and has no two matches with the same (startIndex, importPath); every
\* match the passes find is returned once, so that two textually identical
\* statements at different offsets are both returned, and of the matches
\* with one (startIndex, importPath) the first is the one kept.
C14_SortedWithoutDuplicates ==
  op = "findImports" =>
    LET found == PassMatches(args[1], args[2])
        Same(a, b) == a.startIndex = b.startIndex /\ a.importPath = b.importPath
        first(m) == found[CHOOSE k \in DOMAIN found :
                            /\ Same(found[k], m)
                            /\ \A j \in 1..(k - 1) : ~Same(found[j], m)]
    IN /\ \A i, j \in DOMAIN ret : i < j => ret[i].startIndex <= ret[j].startIndex
       /\ \A i, j \in DOMAIN ret : i # j => ~Same(ret[i], ret[j])
       /\ \A k \in DOMAIN found : \E i \in DOMAIN ret : Same(ret[i], found[k])
       /\ \A i \in DOMAIN ret :
            /\ \E k \in DOMAIN found : Same(found[k], ret[i])
            /\ ret[i] = first(ret[i])

\* four matches, found by the passes in another order than the text's, two
\* of them the same statement at different offsets
C14_Witness ==
  /\ op = "findImports"
  /\ args = <<ContentRepeated, DEFAULT_OPTIONS>>
  /\ Len(ret) = 4
  /\ ret[1].fullMatch = ret[4].fullMatch
  /\ ret[1].startIndex < ret[4].startIndex
  /\ PassMatches(args[1], args[2])[1].startIndex > ret[1].startIndex

\* C15: findImports and each parse pass return, whatever calls were made
\* before on the same or on other texts and wherever these left the scan
\* positions of the shared patterns, the list they return when every
\* pattern is at offset 0.
C15_LocatorIsRepeatable ==
  /\ op = "findImports" => ret = FindImports(args[1], args[2], NoScan)
  /\ op = "parse" =>
       ret = CASE args[2] = "es6" -> ParseES6Imports(args[1], NoScan)
               [] args[2] = "commonjs" -> ParseCommonJSImports(args[1], NoScan)
               [] args[2] = "dynamic" -> ParseDynamicImports(args[1], NoScan)

\* a findImports call that found patterns it uses away from offset 0
C15_Witness ==
  /\ op = "findImports"
  /\ args = <<ContentPlain, DEFAULT_OPTIONS>>
  /\ scan.atCall.ES6_DEFAULT_IMPORT > 0
  /\ scan.atCall.COMMONJS_REQUIRE > 0
  /\ Len(ret) = 3

\* C18: compilePatterns returns one predicate per input pattern, in input
\* order; the predicate of a pattern that is empty, whitespace-only, "**" or
\* "***" (after a leading "!"), or whose expression is not valid, matches no
\* path, and the predicate of every other pattern is a valid expression, the
\* one the pattern compiles to on its own.
C18_OnePredicatePerPattern ==
  op = "compilePatterns" =>
    /\ Len(ret) = Len(args[1])
    /\ \A i \in 1..Len(ret) :
         LET clean == CleanPattern(args[1][i])
             alone == CompilePatterns(<<args[1][i]>>)[1]
         IN IF (\A k \in DOMAIN clean : clean[k] \in {" ", "\t", "\n", "\r"})
               \/ clean \in {<<"*","*">>, <<"*","*","*">>} \/ SyntaxError(alone.source)
            THEN \A filePath \in IgnorePaths : ~RegExpTest(ret[i], filePath)
            ELSE ret[i] = alone /\ ~SyntaxError(ret[i].source)

\* a list with blank patterns, "**", "***" and a pattern with an unclosed
\* bracket before a plain pattern, which still matches its file
C18_Witness ==
  /\ op = "compilePatterns"
  /\ args[1] = << <<>>, <<" "," "," ">>, <<"*",".">>, <<"*","*">>, <<"*","*","*">>, <<"[","i","n","v","a","l","i","d">>, <<"n","o","r","m","a","l",".","t","x","t">> >>
  /\ Len(ret) = 7
  /\ RegExpTest(ret[7], <<"n","o","r","m","a","l",".","t","x","t">>)
  /\ ~RegExpTest(ret[7], <<"o","t","h","e","r",".","t","x","t">>)
  /\ RegExpTest(ret[6], <<"[","i","n","v","a","l","i","d">>)

\* the configuration file parseConfig is pointed at is an object that
\* extends nothing and has no compilerOptions, no baseUrl or no paths
LacksRequiredField(fs, configPath) ==
  LET file == Resolve(Cwd, configPath)
  IN /\ file \in DOMAIN fs
     /\ ~fs[file].syntaxError
     /\ fs[file].config.extends = NULL
     /\ \/ ~fs[file].config.compilerOptions.defined
        \/ fs[file].config.compilerOptions.baseUrl = NULL
        \/ ~fs[file].config.compilerOptions.paths.defined

\* C17 as stated: building the alias table from a configuration that lacks
\* a required field (no paths, no baseUrl or no compilerOptions) fails with
\* an error instead of returning a table built from defaulted fields.
C17_MissingFieldFailsFast ==
  (op = "parseConfig" /\ LacksRequiredField(args[2], args[1])) => ret.threw

\* C17 as the code has it: parseConfig fails with an error when the
\* configuration file is missing or is not JSON, while a configuration that
\* lacks a field is not rejected: the call returns the table built from the
\* defaulted fields, baseUrl "." for a missing baseUrl and no mappings for
\* missing paths.
C17_MissingFieldIsDefaulted ==
  op = "parseConfig" =>
    LET file == Resolve(Cwd, args[1])
        fs == args[2]
        options == fs[file].config.compilerOptions
    IN /\ (file \notin DOMAIN fs \/ fs[file].syntaxError) => ret.threw
       /\ LacksRequiredField(fs, args[1]) =>
            /\ ~ret.threw
            /\ ret.value.rootDir = Dirname(file)
            /\ (~options.defined \/ options.baseUrl = NULL) => ret.value.baseUrl = <<".">>
            /\ (~options.defined \/ ~options.paths.defined) =>
                 ret.value.pathMappings = << >>
            /\ (options.defined /\ options.paths.defined) =>
                 ret.value.pathMappings
                   = BuildPathMappingLookup(options.paths.entries, <<".">>, Dirname(file))

\* a configuration without compilerOptions gives the table of the defaults
C17_Witness ==
  /\ op = "parseConfig"
  /\ args[1] = <<"/","p","r","o","j","e","c","t","/","t","s","c","o","n","f","i","g",".","j","s","o","n">>
  /\ LacksRequiredField(args[2], args[1])
  /\ ~args[2][args[1]].config.compilerOptions.defined
  /\ ret = Returned(ParsedConfig(<<".">>, << >>, <<"/","p","r","o","j","e","c","t">>))

\* C19: after any sequence of get, set and clear on an LRUCache of capacity
\* c >= 1, size() <= c; resolveCache, an LRUCache too, never holds more
\* entries than the capacity it is built with.
C19_SizeWithinCapacity ==
  /\ lru.capacity >= 1 =>
       /\ LRUSize(lru) <= lru.capacity
       /\ op = "size" => ret <= lru.capacity
  /\ Len(resolveCache) <= CacheCapacity

\* a set that found the cache full and left it full
C19_Witness ==
  /\ op = "set"
  /\ lruRef.answer # Undefined
  /\ lru.capacity = 2
  /\ LRUSize(lru) = 2

\* the keys of the list of c from pointer on, at most fuel of them
RECURSIVE ListFrom(_, _, _)
ListFrom(c, pointer, fuel) ==
  IF pointer = Undefined \/ fuel = 0 \/ pointer \notin DOMAIN c.node THEN << >>
  ELSE <<pointer>> \o ListFrom(c, c.node[pointer].next, fuel - 1)

\* C20: LRUCache behaves like a least-recently-used map of the same
\* capacity: get returns the value of the most recent set unless the key
\* was evicted or cleared, a new key in a full cache removes the one entry
\* used least recently, get hits and overwriting sets refresh recency, and
\* a get miss changes nothing.  After every call the cache holds the
\* entries of the map, its list runs from the most to the least recently
\* used, and get and size answer as the map does.
C20_BehavesLikeReferenceLRU ==
  LET entries == lruRef.entries
      n == Len(entries)
  IN /\ op = "get" => ret = lruRef.answer
     /\ op = "size" => ret = n
     /\ DOMAIN lru.node = {entries[i].key : i \in 1..n}
     /\ \A i \in 1..n : lru.node[entries[i].key].value = entries[i].value
     /\ LRUSize(lru) = n
     /\ ListFrom(lru, lru.head, n + 1) = [i \in 1..n |-> entries[n + 1 - i].key]
     /\ lru.tail = (IF n = 0 THEN Undefined ELSE entries[1].key)

\* a new key evicts the entry used least recently, which is not the one
\* inserted first: a get hit or an overwriting set had refreshed that one
C20_Witness ==
  /\ op = "set"
  /\ lruRef.answer # Undefined
  /\ lru.capacity = 3
  /\ lru.keys[1] = lruRef.entries[2].key
  /\ ~LRUHas(lru, lruRef.answer)

\* the file processFile was pointed at could be written when it was called
C21_CouldWrite == args[1] \notin DOMAIN args[4] \/ args[4][args[1]].writable

\* C21 as stated: processFile writes the file iff dryRun is false and the
\* rewritten content differs from the content it read; with dryRun = true
\* it never writes; in both modes the result has modified = true iff the
\* rewritten content differs from the original.
C21_WritesIffChangedAndNotDryRun ==
  op = "processFile" =>
    /\ disk.wrote # << >> <=> (~args[3].dryRun /\ disk.rewritten # disk.read)
    /\ args[3].dryRun => (disk.wrote = << >> /\ disk.files = args[4])
    /\ ret.modified <=> disk.rewritten # disk.read

\* C21 as the code has it: processFile calls writeFile, once and with the
\* rewritten content, iff dryRun is false and the rewritten content differs
\* from the content it read; with dryRun = true it never writes and leaves
\* every file as it is; the result has modified = true iff the rewritten
\* content differs from the original and the write, if one was made, did
\* not fail; after a write that failed the file is as it was and the
\* result has modified = false and an error entry.
C21_ModifiedUnlessWriteFailed ==
  op = "processFile" =>
    LET changed == disk.rewritten # disk.read
        writes == ~args[3].dryRun /\ changed
    IN /\ disk.wrote # << >> <=> writes
       /\ writes => disk.wrote = << [path |-> args[1], data |-> disk.rewritten] >>
       /\ args[3].dryRun => (disk.wrote = << >> /\ disk.files = args[4])
       /\ ret.modified <=> (changed /\ (args[3].dryRun \/ C21_CouldWrite))
       /\ (writes /\ C21_CouldWrite) =>
            /\ disk.files[args[1]].content = disk.rewritten
            /\ \A path \in DOMAIN args[4] \ {args[1]} :
                 path \in DOMAIN disk.files /\ disk.files[path] = args[4][path]
       /\ (writes /\ ~C21_CouldWrite) =>
            (disk.files = args[4] /\ ret.errors # << >>)
       /\ ~writes => disk.files = args[4]

\* a run that is not dry rewrites a file and writes it
C21_Witness ==
  /\ op = "processFile"
  /\ ~args[3].dryRun
  /\ ret.modified
  /\ disk.read = <<"i","m","p","o","r","t"," ","a"," ","f","r","o","m"," ","'",".",".","/","a","'",";">>
  /\ disk.files[args[1]].content = <<"i","m","p","o","r","t"," ","a"," ","f","r","o","m"," ","'","@","/","a","'",";">>
  /\ disk.wrote # << >>

\* C22: processBatch(files, state, options) with positive concurrency and
\* batchSize returns exactly one ProcessingResult per input file, in input
\* order: results.length = files.length = stats.totalFiles and
\* results[i].filePath = files[i], on the batched concurrent path and when
\* memory pressure switches the remaining files to the streaming path.
C22_OneResultPerFileInOrder ==
  op = "processBatch" =>
    /\ Len(ret.results) = Len(args[1])
    /\ ret.stats.totalFiles = Len(args[1])
    /\ \A i \in 1..Len(args[1]) : ret.results[i].filePath = args[1][i]

\* a run of three files in batches of two whose second batch is streamed
C22_Witness ==
  /\ op = "processBatch"
  /\ batch.pc = "done"
  /\ Len(args[1]) = 3
  /\ args[5] = 2
  /\ batch.stats.processedFiles + batch.stats.failedFiles = 3
  /\ Len(batch.chunked.results) = 1
  /\ batch.i = 2

\* C23: every ImportMatch m returned by findImports(content) indexes the
\* original, unmodified content: 0 <= m.startIndex < m.endIndex <= |content|,
\* endIndex - startIndex = |fullMatch|, content[m.startIndex, m.endIndex) =
\* m.fullMatch, and m.importPath is exactly the text between the quotes of
\* the literal inside fullMatch.
C23_MatchesIndexContent ==
  op = "findImports" =>
    \A i \in 1..Len(ret) :
      LET m == ret[i]
      IN /\ 0 <= m.startIndex
         /\ m.startIndex < m.endIndex
         /\ m.endIndex <= Len(args[1])
         /\ m.endIndex - m.startIndex = Len(m.fullMatch)
         /\ Slice(args[1], m.startIndex, m.endIndex) = m.fullMatch
         /\ \E open \in QuoteChars, close \in QuoteChars :
              Includes(m.fullMatch, <<open>> \o m.importPath \o <<close>>)

\* C24: createPathResolver builds the reverse table so that every trimmed
\* resolved base directory D of the configuration maps to the alias
\* (pattern without trailing '/*') of a mapping whose resolved base is D,
\* and an entry stored for a directory is replaced by a later mapping only
\* when the later mapping's directory string is strictly longer than the
\* directory string of the stored alias: of two aliases that resolve to the
\* same directory the one seen first is kept.
C24_ReverseTableKeepsFirstAlias ==
  op = "createPathResolver" =>
    LET mappings == FlattenMappings(args[1])
    IN \A i \in 1..Len(mappings) :
         LET D == StripWildcard(mappings[i].resolvedBase)
             first == CHOOSE k \in 1..Len(mappings) :
                        /\ StripWildcard(mappings[k].resolvedBase) = D
                        /\ \A j \in 1..(k - 1) :
                             StripWildcard(mappings[j].resolvedBase) # D
         IN AliasLookupGet(ret.aliasLookup, D) = StripWildcard(mappings[first].alias)

\* one conversion {originalImport: k, convertedImport: v} per entry (k, v)
\* of a Map of replacements
C25_ConversionsOf(replacements) ==
  [i \in 1..Len(replacements) |->
     Conversion(replacements[i].key, replacements[i].value, NULL)]

\* C25: batchReplaceImports(content, R) returns the same text as
\* replaceImports(content, findImports(content), C) where C holds one
\* conversion per entry of R; with an empty R, or when no located import
\* has a literal in R, it returns content unchanged.
C25_BatchEqualsReplaceImports ==
  op = "batchReplaceImports" =>
    LET imports == FindImports(args[1], DEFAULT_OPTIONS, NoScan)
    IN /\ ret = ReplaceImports(args[1], imports, C25_ConversionsOf(args[2]))
       /\ (\A i \in 1..Len(imports), k \in 1..Len(args[2]) :
             imports[i].importPath # args[2][k].key) => ret = args[1]

\* two of the three imports of a content are replaced, each by its own
\* replacement
C25_Witness ==
  /\ op = "batchReplaceImports"
  /\ args[1] = ContentPlain
  /\ Len(args[2]) = 2
  /\ ret = <<"i","m","p","o","r","t"," ","a"," ","f","r","o","m"," ","'","@","/","a","'",";","\n","i","m","p","o","r","t"," ","b"," ","f","r","o","m"," ","\"",".",".","/","b","\"",";","\n","c","o","n","s","t"," ","s"," ","="," ","'",".","/","a","'",";"," ","r","e","q","u","i","r","e","(","BQ","@","/","c","BQ",")">>

\* the matches a pass hands to findImports when its parseFunction throws
\* in its first throws calls
C26_PassMatches(type, content, throws) ==
  CASE throws = 0 -> ParseFunction(type, content, NoScan)
    [] throws = 1 ->
         ParseFunction(type, StripLineComments(StripBlockComments(content)), NoScan)
    [] OTHER -> << >>

C26_Ran(type, opts) ==
  CASE type = "es6" -> opts.includeES6
    [] type = "commonjs" -> opts.includeCommonJS
    [] type = "dynamic" -> opts.includeDynamic

\* C26: when a pass of findImports throws it is retried exactly once, on
\* the content with block and line comments stripped; when the retry throws
\* too the pass contributes no match; findImports never throws and returns
\* the matches of the other passes.
C26_RetryOnceThenNothing ==
  (op = "findImportsThrowing" /\ args[1] # << >>) =>
    LET content == args[1]
        opts == args[2]
        throws == args[3]
        contributed(type) ==
          IF C26_Ran(type, opts) THEN C26_PassMatches(type, content, throws[type])
          ELSE << >>
        unique == UniqueMatches(SortByStart(ValidMatches(
                    contributed("es6") \o contributed("commonjs")
                    \o contributed("dynamic"))))
    IN /\ ~ret.threw
       /\ ret.matches = [index \in 1..Len(unique) |-> unique[index].m]
       /\ \A type \in DOMAIN throws :
            C26_Ran(type, opts) =>
              /\ Len(ret.calls[type]) = (IF throws[type] = 0 THEN 1 ELSE 2)
              /\ ret.calls[type][1] = content
              /\ throws[type] > 0 =>
                   /\ ret.calls[type][2] = StripLineComments(StripBlockComments(content))
                   /\ ~Includes(ret.calls[type][2], <<"/","/">>)
              /\ throws[type] = ParseAttempts =>
                   \A i \in 1..Len(ret.matches) : ret.matches[i].type # type

\* the ES6 pass throws once and is retried on the content without its
\* comments, the CommonJS pass throws twice, the dynamic pass does not throw
C26_Witness ==
  /\ op = "findImportsThrowing"
  /\ args[1] = ContentCommented
  /\ args[2] = DEFAULT_OPTIONS
  /\ args[3] = [es6 |-> 1, commonjs |-> 2, dynamic |-> 0]
  /\ ret.calls.es6[2] = <<"i","m","p","o","r","t"," ","'",".","/","a","'",";","\n","r","e","q","u","i","r","e","(","'",".","/","b","'",")",";","i","m","p","o","r","t","(","'",".","/","c","'",")">>
  /\ Len(ret.matches) = 2
  /\ ret.matches[1].importPath = <<".","/","a">> /\ ret.matches[1].startIndex = 0
  /\ ret.matches[2].type = "dynamic"

\* C28: for every state and every directory path without a trailing slash,
\* when shouldIgnore reports the path as ignored, shouldIgnoreDirectory
\* returns true.
C28_IgnoredPathIsIgnoredDirectory ==
  (/\ op = "shouldIgnoreDirectory"
   /\ ~EndsWith(args[2], <<"/">>)
   /\ ShouldIgnore(args[1], args[2]).shouldIgnore) => ret

\* the sum of the recorded sizes of the entries stored
RECURSIVE C27_SizesFrom(_, _)
C27_SizesFrom(cache, i) ==
  IF i > Len(cache) THEN 0 ELSE cache[i].size + C27_SizesFrom(cache, i + 1)

\* C27: after any sequence of set, get, delete and clear, memoryUsage() is
\* the sum of the recorded sizes of the entries stored, and so never
\* negative.
C27_UsageIsSumOfSizes ==
  MemoryUsage(mac) = C27_SizesFrom(mac.cache, 1)

\* C29: following extends terminates after a bounded number of loads with
\* each file merged at most once, cycles included: no configuration file is
\* loaded twice during one parseConfig.
C29_EachFileLoadedOnce ==
  op = "parseConfig.extends" =>
    \A i, j \in 1..Len(ret.loads) : ret.loads[i] = ret.loads[j] => i = j

\* C30: every job submitted with execute is eventually posted to a worker
\* and its promise is eventually settled with the message or error a worker
\* produced for that job's own data.
C30_EveryJobPostedAndSettled ==
  \A j \in 1..MaxJobs :
    (j <= Len(pool.jobs)) ~>
      (/\ j <= Len(pool.jobs)
       /\ pool.jobs[j].posted
       /\ pool.jobs[j].settled # "pending"
       /\ pool.jobs[j].about = j)

====
